---- MODULE Spec2Model ----
(***************************************************************************)
(* A model of the api-router forwarding data plane: the per-key connection *)
(* pool, the token-bucket rate limiter, the hot-reloading config cache,    *)
(* the SSE streamer and the route dispatcher.                              *)
(***************************************************************************)
EXTENDS Integers, Sequences, FiniteSets, Bags, TLC

(***************************************************************************)
(* Bounds of the model.                                                    *)
(***************************************************************************)
\* PoolConfig.max_size of the modelled pool (the default is 10).
PoolMaxSize == 1
\* next_connection_id is an unbounded u64; connections are created while
\* it is below this cap.
MaxConnId == 3
\* Concurrent request tasks that use the pool.
NumPoolTasks == 2

\* The monotonic clock (Instant) runs from 0 to MaxClock seconds.
MaxClock == 2
\* RateLimiter::check is called at most this many times in a behaviour.
MaxChecks == 3
\* Concurrent tasks that call RateLimiter::check.
NumRateTasks == 2

\* Changes made to the config files on disk in a behaviour.
MaxFsVersion == 3
\* Arc<ApiConfig> allocations (successful parses) in a behaviour.
MaxArcs == 3
\* Concurrent tasks that call load_api_config.
NumConfigTasks == 2

\* Tasks running handle_request at the same time.
NumRouterTasks == 1
\* Client connections accepted in a behaviour.
MaxConnections == 2
\* Bytes the upstream has to send on one streaming response.
MaxUpstreamBytes == 3

\* Parts of a multipart/form-data body.
MaxParts == 2

\* Units one stream.read of handle_request can fill (a 4096-byte buffer).
ReadBufferLen == 2
\* Reads the loop of handle_request makes at most (1000 in the code).
ReadBudget == 3

\* The tracker's clock runs from 0 to MaxTrackerClock units of 30 seconds.
MaxTrackerClock == 11
\* Calls of track_upstream_failure in a behaviour.
MaxFailures == 10

PoolTasks == 1..NumPoolTasks
ConfigTasks == 1..NumConfigTasks
NoConn == 0
RateTasks == 1..NumRateTasks

VARIABLES
    \* ConnectionPoolInner of the one modelled key
    idle_channel,        \* sender/receiver: FIFO of [id, expired, eof]
    active_count,        \* AtomicUsize
    next_connection_id,  \* AtomicU64
    \* one entry per task running send_http_request / handle_streaming_request
    ppc,                 \* position of the task in the code
    pcurrent,            \* the local `current` read by acquire
    pconn,               \* the PooledConnection the task owns (NoConn: none)
    recycled             \* ids of the connections dropped by the Err arm

poolVars == <<idle_channel, active_count, next_connection_id, ppc, pcurrent, pconn, recycled>>

VARIABLES
    clock,          \* what Instant::now() returns, in seconds
    buckets,        \* RateLimiter.buckets: key -> TokenBucket (or absent)
    rpc,            \* position of each task inside RateLimiter::check
    rnow,           \* the local `now` of the call
    rkey,           \* the (route, api_key) of the call
    rsettings,      \* the settings argument of the call
    rdecision,      \* the RateLimitDecision the task got last
    check_calls,    \* number of check calls started
    \* history of the decisions, per bucket
    allowed_log,    \* the Allowed calls: [called, decided] times
    same_settings,  \* every check of the bucket used the settings it has
    burst_valid,    \* the bucket was full and no refill added tokens since
    burst_checks,   \* checks decided since the bucket was last full
    burst_allowed,  \* Allowed decisions among them
    last_decision   \* the last decision on the bucket, and whether the check
                    \* came, with the same settings, after the wait a Limited
                    \* decision before it had named

rateVars == <<clock, buckets, rpc, rnow, rkey, rsettings, rdecision, check_calls,
              allowed_log, same_settings, burst_valid, burst_checks, burst_allowed,
                   last_decision>>

VARIABLES
    primary,        \* the file at paths.primary: [exists, mtime, content]
    fallback,       \* the file at paths.fallback
    fs_version,     \* number of changes made to the two files so far
    cache_entry,    \* ConfigCache.entry: [present, config, source, modified]
    arcs,           \* the heap: Arc<ApiConfig> id -> contents
    next_arc,       \* Arc allocations made so far
    rw_writer,      \* the task holding the RwLock for writing (0: none)
    cpc,            \* position of each task inside load_api_config
    csnap,          \* the Arc the task got from load_api_config (0: none)
    cseen,          \* the contents of that snapshot when it was returned
    cpath,          \* how the last call of the task returned
    installs,       \* fs_version -> entries installed while it was current
    creads          \* the paths the task's last call gave read_config_from_path

configVars == <<primary, fallback, fs_version, cache_entry, arcs, next_arc, rw_writer,
                cpc, csnap, cseen, cpath, installs, creads>>

VARIABLES
    \* one entry per task running handle_request on an accepted connection
    accepted,       \* connections accepted by the listener so far
    hpc,            \* position of the task in handle_request and its callees
    request,        \* the ParsedRequest (or what the read loop ended with)
    hsettings,      \* resolve_rate_limit_settings(route_path, config)
    hnow,           \* the `now` of the task's RATE_LIMITER.check call
    hdecision,      \* the RateLimitDecision of the request ("none" before)
    hresult,        \* the RouterResult of handle_route ("none" before)
    planned,        \* prepare_forward_plan was called for the request
    upstream_sent,  \* requests written to an upstream connection
    hconn,          \* the pooled connection: none, held, returned, recycled
    upstream_pos,   \* bytes read from upstream by the relay loop so far
    buffer,         \* buffer[..n] of the relay loop after a read
    last_activity,  \* last_activity of the relay loop
    client,         \* the client socket: open, closed (peer gone), failed
    client_out,     \* what has been written to the client socket, in order
    recorded,       \* the rows the task's request added to requests_total
    active_connections, \* the ACTIVE_CONNECTIONS gauge
    \* the upstream socket of the relay loop and the times of its events
    upstream_avail, \* bytes the upstream delivered that no read returned yet
    arrived_at,     \* when the upstream delivered last
    silence,        \* how long it had delivered nothing before that
    last_relay,     \* when the header or a chunk was last written to the client
    upstream_outcome, \* what a non-streaming forward met upstream ("none" before)
    hconfig         \* the ApiConfig load_api_config returned to the task

routerVars == <<accepted, hpc, request, hsettings, hnow, hdecision, hresult, planned, upstream_sent,
                hconn, upstream_pos, buffer, last_activity, client, client_out, recorded,
                active_connections, upstream_avail, arrived_at, silence, last_relay,
                upstream_outcome, hconfig>>

upstreamVars == <<upstream_avail, arrived_at, silence, last_relay, upstream_outcome>>

VARIABLES
    \* one call of a pure function of the forward path
    fn_arg,         \* the function and its arguments
    fn_ret          \* what it returned (NoRet before it ran)

forwardVars == <<fn_arg, fn_ret>>

VARIABLES
    \* UPSTREAM_FAILURE_TRACKER of the one modelled provider
    tnow,              \* what Instant::now() returns to the tracker
    failure_tracker,   \* the UpstreamFailureInfo of the provider (or no entry)
    alerts,            \* the calls of alert_repeated_upstream_failures so far
    failures_tracked   \* calls of track_upstream_failure so far

trackerVars == <<tnow, failure_tracker, alerts, failures_tracked>>

vars == <<poolVars, rateVars, configVars, routerVars, forwardVars, trackerVars>>

\* what the actions of one component leave alone
notPool == <<rateVars, configVars, routerVars, forwardVars, trackerVars>>
notRate == <<poolVars, configVars, routerVars, forwardVars, trackerVars>>
notConfig == <<poolVars, rateVars, routerVars, forwardVars, trackerVars>>
\* the rate limiter's state other than the clock and the bucket map
rateCallVars == <<rpc, rnow, rkey, rsettings, rdecision, check_calls,
                  allowed_log, same_settings, burst_valid, burst_checks, burst_allowed,
                   last_decision>>
notRouter == <<poolVars, configVars, rateCallVars, forwardVars, trackerVars>>

(***************************************************************************)
(* Connection pool (http_client.rs)                                        *)
(***************************************************************************)
PoolInit ==
    /\ idle_channel = <<>>
    /\ active_count = 0
    /\ next_connection_id = 0
    /\ ppc = [t \in PoolTasks |-> "idle"]
    /\ pcurrent = [t \in PoolTasks |-> 0]
    /\ pconn = [t \in PoolTasks |-> NoConn]
    /\ recycled = {}

\* send_http_request / handle_streaming_request reach CONNECTION_POOL.acquire
acquire(t) ==
    /\ ppc[t] = "idle"
    /\ ppc' = [ppc EXCEPT ![t] = "try_recv"]
    /\ UNCHANGED <<idle_channel, active_count, next_connection_id, pcurrent, pconn, recycled>>
    /\ UNCHANGED notPool

\* loop head: self.receiver.try_recv()
acquire_try_recv(t) ==
    /\ ppc[t] = "try_recv"
    /\ IF idle_channel # <<>>
       THEN /\ idle_channel' = Tail(idle_channel)
            /\ IF Head(idle_channel).expired
               THEN /\ ppc' = [ppc EXCEPT ![t] = "expired_sub"]
                    /\ pconn' = pconn
               ELSE /\ ppc' = [ppc EXCEPT ![t] = "holding"]
                    /\ pconn' = [pconn EXCEPT ![t] = Head(idle_channel).id]
       ELSE /\ ppc' = [ppc EXCEPT ![t] = "load"]
            /\ UNCHANGED <<idle_channel, pconn>>
    /\ UNCHANGED <<active_count, next_connection_id, pcurrent, recycled>>
    /\ UNCHANGED notPool

\* the expired connection is dropped: fetch_sub(1), continue
acquire_expired_sub(t) ==
    /\ ppc[t] = "expired_sub"
    /\ active_count' = active_count - 1
    /\ ppc' = [ppc EXCEPT ![t] = "try_recv"]
    /\ UNCHANGED <<idle_channel, next_connection_id, pcurrent, pconn, recycled>>
    /\ UNCHANGED notPool

\* let current = self.active_count.load(Relaxed)
acquire_load(t) ==
    /\ ppc[t] = "load"
    /\ pcurrent' = [pcurrent EXCEPT ![t] = active_count]
    /\ ppc' = [ppc EXCEPT ![t] = "decide"]
    /\ UNCHANGED <<idle_channel, active_count, next_connection_id, pconn, recycled>>
    /\ UNCHANGED notPool

\* the fetch_add that follows `if current < self.config.max_size`
fetch_add_active(t, count) == count + 1

\* if current < max_size { active_count.fetch_add(1); next_connection_id.fetch_add(1) }
acquire_fetch_add(t) ==
    /\ ppc[t] = "decide"
    /\ pcurrent[t] < PoolMaxSize
    /\ next_connection_id < MaxConnId
    /\ active_count' = fetch_add_active(t, active_count)
    /\ next_connection_id' = next_connection_id + 1
    /\ pconn' = [pconn EXCEPT ![t] = next_connection_id + 1]
    /\ ppc' = [ppc EXCEPT ![t] = "create"]
    /\ UNCHANGED <<idle_channel, pcurrent, recycled>>
    /\ UNCHANGED notPool

\* else branch: the task goes on to self.receiver.recv().await
acquire_wait(t) ==
    /\ ppc[t] = "decide"
    /\ pcurrent[t] >= PoolMaxSize
    /\ ppc' = [ppc EXCEPT ![t] = "recv_wait"]
    /\ UNCHANGED <<idle_channel, active_count, next_connection_id, pcurrent, pconn, recycled>>
    /\ UNCHANGED notPool

\* a blocking receive that hands out whatever the channel delivers
acquire_recv_unchecked(t) ==
    /\ ppc[t] = "recv_wait"
    /\ idle_channel # <<>>
    /\ pconn' = [pconn EXCEPT ![t] = Head(idle_channel).id]
    /\ ppc' = [ppc EXCEPT ![t] = "holding"]
    /\ idle_channel' = Tail(idle_channel)
    /\ UNCHANGED <<active_count, next_connection_id, pcurrent, recycled>>
    /\ UNCHANGED notPool

\* recv().await delivers an idle connection
acquire_recv(t) ==
    /\ ppc[t] = "recv_wait"
    /\ idle_channel # <<>>
    /\ IF Head(idle_channel).expired
       THEN /\ next_connection_id < MaxConnId
            /\ next_connection_id' = next_connection_id + 1
            /\ pconn' = [pconn EXCEPT ![t] = next_connection_id + 1]
            /\ ppc' = [ppc EXCEPT ![t] = "create"]
       ELSE /\ pconn' = [pconn EXCEPT ![t] = Head(idle_channel).id]
            /\ ppc' = [ppc EXCEPT ![t] = "holding"]
            /\ UNCHANGED next_connection_id
    /\ idle_channel' = Tail(idle_channel)
    /\ UNCHANGED <<active_count, pcurrent, recycled>>
    /\ UNCHANGED notPool

\* create_connection: TcpStream::connect and the TLS handshake succeed
create_connection_ok(t) ==
    /\ ppc[t] = "create"
    /\ ppc' = [ppc EXCEPT ![t] = "holding"]
    /\ UNCHANGED <<idle_channel, active_count, next_connection_id, pcurrent, pconn, recycled>>
    /\ UNCHANGED notPool

\* create_connection: connect or handshake fails, acquire returns Err
create_connection_err(t) ==
    /\ ppc[t] = "create"
    /\ ppc' = [ppc EXCEPT ![t] = "idle"]
    /\ pconn' = [pconn EXCEPT ![t] = NoConn]
    /\ UNCHANGED <<idle_channel, active_count, next_connection_id, pcurrent, recycled>>
    /\ UNCHANGED notPool

\* send_request_on_connection (stream_response_to_client for a streaming
\* caller) on the acquired connection returns Ok: the response was read up to
\* its Content-Length ("sent"), or a read returned 0 bytes and the loop broke
\* ("sent_eof": `if n == 0 { break; }`, and Some(Ok(0)) in the streamer)
send_request_on_connection_ok(t) ==
    /\ ppc[t] = "holding"
    /\ \E ended \in {"sent", "sent_eof"} : ppc' = [ppc EXCEPT ![t] = ended]
    /\ UNCHANGED <<idle_channel, active_count, next_connection_id, pcurrent, pconn, recycled>>
    /\ UNCHANGED notPool

\* writing the request or reading the response fails: it returns Err
send_request_on_connection_err(t) ==
    /\ ppc[t] = "holding"
    /\ ppc' = [ppc EXCEPT ![t] = "failed"]
    /\ UNCHANGED <<idle_channel, active_count, next_connection_id, pcurrent, pconn, recycled>>
    /\ UNCHANGED notPool

\* Ok arm of the caller: return_connection, self.sender.try_send(conn)
return_connection(t) ==
    /\ ppc[t] \in {"sent", "sent_eof"}
    /\ IF Len(idle_channel) < PoolMaxSize
       THEN /\ idle_channel' = Append(idle_channel, [id |-> pconn[t], expired |-> FALSE,
                                                     eof |-> ppc[t] = "sent_eof"])
            /\ ppc' = [ppc EXCEPT ![t] = "idle"]
       ELSE /\ ppc' = [ppc EXCEPT ![t] = "return_sub"]
            /\ UNCHANGED idle_channel
    /\ pconn' = [pconn EXCEPT ![t] = NoConn]
    /\ UNCHANGED <<active_count, next_connection_id, pcurrent, recycled>>
    /\ UNCHANGED notPool

\* try_send failed: fetch_sub(1), the connection is dropped
return_connection_sub(t) ==
    /\ ppc[t] = "return_sub"
    /\ active_count' = active_count - 1
    /\ ppc' = [ppc EXCEPT ![t] = "idle"]
    /\ UNCHANGED <<idle_channel, next_connection_id, pcurrent, pconn, recycled>>
    /\ UNCHANGED notPool

\* an Err arm that hands the failed connection back to the idle channel
recycle_connection_requeues(t) ==
    /\ ppc[t] = "failed"
    /\ Len(idle_channel) < PoolMaxSize
    /\ idle_channel' = Append(idle_channel, [id |-> pconn[t], expired |-> FALSE, eof |-> FALSE])
    /\ recycled' = recycled \cup {pconn[t]}
    /\ pconn' = [pconn EXCEPT ![t] = NoConn]
    /\ ppc' = [ppc EXCEPT ![t] = "idle"]
    /\ UNCHANGED <<active_count, next_connection_id, pcurrent>>
    /\ UNCHANGED notPool

\* Err arm of the caller: recycle_connection, fetch_sub(1); conn is dropped
\* when the caller returns
recycle_connection(t) ==
    /\ ppc[t] = "failed"
    /\ active_count' = active_count - 1
    /\ recycled' = recycled \cup {pconn[t]}
    /\ pconn' = [pconn EXCEPT ![t] = NoConn]
    /\ ppc' = [ppc EXCEPT ![t] = "idle"]
    /\ UNCHANGED <<idle_channel, next_connection_id, pcurrent>>
    /\ UNCHANGED notPool

\* time passes: last_used.elapsed() of an idle connection exceeds idle_timeout
is_expired(i) ==
    /\ i \in 1..Len(idle_channel)
    /\ ~idle_channel[i].expired
    /\ idle_channel' = [idle_channel EXCEPT ![i].expired = TRUE]
    /\ UNCHANGED <<active_count, next_connection_id, ppc, pcurrent, pconn, recycled>>
    /\ UNCHANGED notPool

(***************************************************************************)
(* Token-bucket rate limiter (rate_limit.rs).  tokens, capacity and the    *)
(* refill rate are f64 in the code; the model keeps them exact, in units   *)
(* of 1/60 token, so that requests_per_minute / 60.0 tokens per second is  *)
(* requests_per_minute units per second.                                   *)
(***************************************************************************)
TokenUnit == 60

\* the (route, api_key) keys of the DashMap
BucketKeys == {"client_a"}

\* RateLimitSettings values as resolve_rate_limit_settings returns them
SettingsChoices ==
    { [requests_per_minute |-> 60, burst |-> 2],
      [requests_per_minute |-> 40, burst |-> 1],
      [requests_per_minute |-> 30, burst |-> 1] }

NoSettings == [requests_per_minute |-> 0, burst |-> 0]

NoBucket ==
    [present |-> FALSE, tokens |-> 0, capacity |-> 0, refill_per_second |-> 0,
     last_refill |-> 0, settings |-> NoSettings]

Min(a, b) == IF a < b THEN a ELSE b
Max(a, b) == IF a > b THEN a ELSE b

\* TokenBucket::new
TokenBucket_new(settings, now) ==
    [present |-> TRUE,
     tokens |-> settings.burst * TokenUnit,
     capacity |-> settings.burst * TokenUnit,
     refill_per_second |-> settings.requests_per_minute,
     last_refill |-> now,
     settings |-> settings]

\* an update_settings that leaves the token balance as it was
update_settings_keeps_tokens(b, settings, now) ==
    IF b.settings # settings
    THEN [b EXCEPT !.settings = settings,
                   !.capacity = settings.burst * TokenUnit,
                   !.refill_per_second = settings.requests_per_minute,
                   !.last_refill = now]
    ELSE b

\* TokenBucket::update_settings
update_settings(b, settings, now) ==
    IF b.settings # settings
    THEN [b EXCEPT !.settings = settings,
                   !.capacity = settings.burst * TokenUnit,
                   !.refill_per_second = settings.requests_per_minute,
                   !.tokens = settings.burst * TokenUnit,
                   !.last_refill = now]
    ELSE b

\* Instant::duration_since saturates at zero
duration_since(now, earlier) == IF now > earlier THEN now - earlier ELSE 0

\* refill that credits the elapsed time without moving last_refill
refill_keeps_last_refill(b, now) ==
    IF b.tokens >= b.capacity
    THEN [b EXCEPT !.last_refill = now]
    ELSE IF duration_since(now, b.last_refill) <= 0
         THEN b
         ELSE [b EXCEPT
                 !.tokens = Min(b.tokens + duration_since(now, b.last_refill) * b.refill_per_second,
                                b.capacity)]

\* TokenBucket::refill
refill(b, now) ==
    IF b.tokens >= b.capacity
    THEN [b EXCEPT !.last_refill = now]
    ELSE IF duration_since(now, b.last_refill) <= 0
         THEN b
         ELSE [b EXCEPT
                 !.tokens = Min(b.tokens + duration_since(now, b.last_refill) * b.refill_per_second,
                                b.capacity),
                 !.last_refill = now]

\* a retry_after that rounds the wait down
retry_after_floor(b) ==
    IF b.refill_per_second > 0
    THEN (TokenUnit - b.tokens) \div b.refill_per_second
    ELSE 60

\* a retry_after that names the one-second minimum whatever is missing
retry_after_minimum(b) == 1

\* (needed / refill_per_second).ceil() of try_consume, 60 when the rate is 0
retry_after(b) ==
    IF b.refill_per_second > 0
    THEN ((TokenUnit - b.tokens) + b.refill_per_second - 1) \div b.refill_per_second
    ELSE 60

\* try_consume that admits on any positive token balance
consume_when_positive(b) ==
    IF b.tokens > 0
    THEN [bucket |-> [b EXCEPT !.tokens = b.tokens - TokenUnit],
          allowed |-> TRUE, retry_after_seconds |-> 0]
    ELSE [bucket |-> b, allowed |-> FALSE,
          retry_after_seconds |-> Max(retry_after(b), 1)]

\* the body of TokenBucket::try_consume after the refill
consume(b) ==
    IF b.tokens >= TokenUnit
    THEN [bucket |-> [b EXCEPT !.tokens = b.tokens - TokenUnit],
          allowed |-> TRUE, retry_after_seconds |-> 0]
    ELSE [bucket |-> b, allowed |-> FALSE,
          retry_after_seconds |-> Max(retry_after(b), 1)]

\* TokenBucket::try_consume
try_consume(b, now) == consume(refill(b, now))

\* the bucket RateLimiter::check works on: entry(key).or_insert_with(new),
\* then update_settings
check_entry(bs, key, settings, now) ==
    update_settings(IF bs[key].present THEN bs[key] ELSE TokenBucket_new(settings, now),
                    settings, now)

\* RateLimiter::check on the map bs: the new bucket and the decision
check(bs, key, settings, now) == try_consume(check_entry(bs, key, settings, now), now)

\* no check has touched the bucket
NoDecision == [limited |-> FALSE, retry_after_seconds |-> 0, decided |-> 0,
               settings |-> NoSettings, waited |-> FALSE]

\* the entry of last_decision after the call with `now` and `settings` got
\* decision res at the present time
Decided(prev, res, now, settings) ==
    [limited |-> ~res.allowed,
     retry_after_seconds |-> res.retry_after_seconds,
     decided |-> clock,
     settings |-> settings,
     waited |-> /\ prev.limited
                /\ prev.settings = settings
                /\ now >= prev.decided + prev.retry_after_seconds]

RateInit ==
    /\ clock = 0
    /\ buckets = [k \in BucketKeys |-> NoBucket]
    /\ rpc = [t \in RateTasks |-> "idle"]
    /\ rnow = [t \in RateTasks |-> 0]
    /\ rkey = [t \in RateTasks |-> "client_a"]
    /\ rsettings = [t \in RateTasks |-> NoSettings]
    /\ rdecision = [t \in RateTasks |-> [allowed |-> TRUE, retry_after_seconds |-> 0]]
    /\ check_calls = 0
    /\ allowed_log = [k \in BucketKeys |-> <<>>]
    /\ same_settings = [k \in BucketKeys |-> TRUE]
    /\ burst_valid = [k \in BucketKeys |-> FALSE]
    /\ burst_checks = [k \in BucketKeys |-> 0]
    /\ burst_allowed = [k \in BucketKeys |-> 0]
    /\ last_decision = [k \in BucketKeys |-> NoDecision]

\* the monotonic clock advances by one second
Tick ==
    /\ clock < MaxClock
    /\ clock' = clock + 1
    /\ UNCHANGED <<buckets, rpc, rnow, rkey, rsettings, rdecision, check_calls,
                   allowed_log, same_settings, burst_valid, burst_checks, burst_allowed,
                   last_decision>>
    /\ UNCHANGED notRate

\* RateLimiter::check up to `let now = Instant::now()`, before the map entry
\* is locked
check_now(t) ==
    /\ rpc[t] = "idle"
    /\ check_calls < MaxChecks
    /\ \E k \in BucketKeys, s \in SettingsChoices :
        /\ rkey' = [rkey EXCEPT ![t] = k]
        /\ rsettings' = [rsettings EXCEPT ![t] = s]
    /\ rnow' = [rnow EXCEPT ![t] = clock]
    /\ rpc' = [rpc EXCEPT ![t] = "entry"]
    /\ check_calls' = check_calls + 1
    /\ UNCHANGED <<clock, buckets, rdecision,
                   allowed_log, same_settings, burst_valid, burst_checks, burst_allowed,
                   last_decision>>
    /\ UNCHANGED notRate

\* the history of bucket k after a check that found bucket `before`, refilled
\* it to `filled` and decided `res`
LogDecision(t, k, before, filled, res) ==
    /\ last_decision' =
         [last_decision EXCEPT ![k] = Decided(@, res, rnow[t], rsettings[t])]
    /\ allowed_log' =
         IF res.allowed
         THEN [allowed_log EXCEPT ![k] = Append(@, [called |-> rnow[t], decided |-> clock])]
         ELSE allowed_log
    /\ same_settings' =
         [same_settings EXCEPT ![k] = @ /\ (before.present => before.settings = rsettings[t])]
    /\ IF filled.tokens = filled.capacity
       THEN /\ burst_valid' = [burst_valid EXCEPT ![k] = TRUE]
            /\ burst_checks' = [burst_checks EXCEPT ![k] = 1]
            /\ burst_allowed' = [burst_allowed EXCEPT ![k] = IF res.allowed THEN 1 ELSE 0]
       ELSE /\ burst_valid' = [burst_valid EXCEPT ![k] = @ /\ filled.tokens = before.tokens]
            /\ burst_checks' = [burst_checks EXCEPT ![k] = @ + 1]
            /\ burst_allowed' = [burst_allowed EXCEPT ![k] = @ + IF res.allowed THEN 1 ELSE 0]

\* check without the entry guard: the calls that are at the bucket together
\* all read the same bucket and the last write wins
check_unlocked(t) ==
    /\ rpc[t] = "entry"
    /\ LET k == rkey[t]
           racers == {u \in RateTasks : rpc[u] = "entry" /\ rkey[u] = k}
           res(u) == check(buckets, k, rsettings[u], rnow[u])
           filled == refill(check_entry(buckets, k, rsettings[t], rnow[t]), rnow[t])
           n_allowed == Cardinality({u \in racers : res(u).allowed})
       IN /\ buckets' = [buckets EXCEPT ![k] = res(t).bucket]
          /\ rdecision' = [u \in RateTasks |->
                             IF u \in racers
                             THEN [allowed |-> res(u).allowed,
                                   retry_after_seconds |-> res(u).retry_after_seconds]
                             ELSE rdecision[u]]
          /\ rpc' = [u \in RateTasks |-> IF u \in racers THEN "idle" ELSE rpc[u]]
          /\ last_decision' =
                [last_decision EXCEPT ![k] = Decided(@, res(t), rnow[t], rsettings[t])]
          /\ allowed_log' =
                IF res(t).allowed
                THEN [allowed_log EXCEPT ![k] = Append(@, [called |-> rnow[t], decided |-> clock])]
                ELSE allowed_log
          /\ same_settings' =
                [same_settings EXCEPT ![k] = @ /\ (buckets[k].present => buckets[k].settings = rsettings[t])]
          /\ IF filled.tokens = filled.capacity
             THEN /\ burst_valid' = [burst_valid EXCEPT ![k] = TRUE]
                  /\ burst_checks' = [burst_checks EXCEPT ![k] = Cardinality(racers)]
                  /\ burst_allowed' = [burst_allowed EXCEPT ![k] = n_allowed]
             ELSE /\ burst_valid' = [burst_valid EXCEPT ![k] = @ /\ filled.tokens = buckets[k].tokens]
                  /\ burst_checks' = [burst_checks EXCEPT ![k] = @ + Cardinality(racers)]
                  /\ burst_allowed' = [burst_allowed EXCEPT ![k] = @ + n_allowed]
    /\ UNCHANGED <<clock, rnow, rkey, rsettings, check_calls>>
    /\ UNCHANGED notRate

\* RateLimiter::check from buckets.entry(key) to the return: the entry guard
\* holds the bucket's shard lock over update_settings and try_consume
check_locked(t) ==
    /\ rpc[t] = "entry"
    /\ LET k == rkey[t]
           res == check(buckets, k, rsettings[t], rnow[t])
       IN /\ buckets' = [buckets EXCEPT ![k] = res.bucket]
          /\ rdecision' = [rdecision EXCEPT ![t] =
                             [allowed |-> res.allowed,
                              retry_after_seconds |-> res.retry_after_seconds]]
          /\ LogDecision(t, k, buckets[k],
                         refill(check_entry(buckets, k, rsettings[t], rnow[t]), rnow[t]), res)
    /\ rpc' = [rpc EXCEPT ![t] = "idle"]
    /\ UNCHANGED <<clock, rnow, rkey, rsettings, check_calls>>
    /\ UNCHANGED notRate

RateNext ==
    \/ Tick
    \/ \E t \in RateTasks :
        \/ check_now(t)
        \/ check_locked(t)

(***************************************************************************)
(* Config cache (config.rs).  A file content is the name of the ApiConfig  *)
(* it parses to, or InvalidJson.                                           *)
(***************************************************************************)
ConfigContents == {"A", "B"}
InvalidJson == "invalid"
FallbackContent == "F"
NoContent == "none"

NoEntry == [present |-> FALSE, config |-> 0, source |-> "primary", modified |-> 0]

\* fs::metadata(path).modified() of a file that exists
metadata_modified(file) == file.mtime

\* needs_reload that does not compare the modification times
needs_reload_ignores_mtime(entry) ==
    IF primary.exists
    THEN entry.source # "primary"
    ELSE IF entry.source = "primary" THEN TRUE ELSE ~fallback.exists

\* needs_reload
needs_reload(entry) ==
    IF primary.exists
    THEN IF entry.source = "primary"
         THEN entry.modified # metadata_modified(primary)
         ELSE TRUE
    ELSE IF entry.source = "primary"
         THEN TRUE
         ELSE IF fallback.exists
              THEN entry.modified # metadata_modified(fallback)
              ELSE TRUE

\* the cache test of load_api_config: an entry exists and needs no reload
cache_hit(entry) == entry.present /\ ~needs_reload(entry)

\* load_api_config without the second cache test
cache_hit_skipped(entry) == FALSE

\* the second cache test of load_api_config, made under the write lock
cache_hit_locked(entry) == cache_hit(entry)

\* read_config_from_path: ConfigRead, ConfigParse or the parsed config
read_config_from_path(file) ==
    IF ~file.exists
    THEN [err |-> "ConfigRead", content |-> NoContent, modified |-> 0]
    ELSE IF file.content = InvalidJson
         THEN [err |-> "ConfigParse", content |-> NoContent, modified |-> 0]
         ELSE [err |-> "", content |-> file.content, modified |-> file.mtime]

\* a load_config_with_paths that falls back on every error of the primary
load_config_with_paths_always_falls_back ==
    LET p == read_config_from_path(primary)
        f == read_config_from_path(fallback)
    IN IF p.err = ""
       THEN [err |-> "", content |-> p.content, source |-> "primary", modified |-> p.modified,
             reads |-> <<"primary">>]
       ELSE [err |-> f.err, content |-> f.content, source |-> "fallback", modified |-> f.modified,
             reads |-> <<"primary", "fallback">>]

\* load_config_with_paths: the primary, the fallback only on ConfigRead;
\* reads are the paths given to read_config_from_path, in order
load_config_with_paths ==
    LET p == read_config_from_path(primary)
        f == read_config_from_path(fallback)
    IN IF p.err = ""
       THEN [err |-> "", content |-> p.content, source |-> "primary", modified |-> p.modified,
             reads |-> <<"primary">>]
       ELSE IF p.err = "ConfigParse"
            THEN [err |-> "ConfigParse", content |-> NoContent, source |-> "primary", modified |-> 0,
                  reads |-> <<"primary">>]
            ELSE [err |-> f.err, content |-> f.content, source |-> "fallback", modified |-> f.modified,
                  reads |-> <<"primary", "fallback">>]

\* a load_api_config that empties the cache when the load fails
entry_cleared_by_failed_load(entry) == NoEntry

\* guard.entry of load_api_config after `load_config_with_paths(&paths)?`
\* returned the error: the assignment to guard.entry is not reached
entry_after_failed_load(entry) == entry

\* the new config written into the Arc the cache already holds
Arc_overwritten_in_place ==
    IF cache_entry.present THEN cache_entry.config ELSE next_arc + 1

\* Arc::new(config): a fresh allocation
Arc_new == next_arc + 1

ConfigInit ==
    /\ primary = [exists |-> TRUE, mtime |-> 0, content |-> "A"]
    /\ fallback = [exists |-> TRUE, mtime |-> 0, content |-> FallbackContent]
    /\ fs_version = 0
    /\ cache_entry = NoEntry
    /\ arcs = [i \in 1..MaxArcs |-> NoContent]
    /\ next_arc = 0
    /\ rw_writer = 0
    /\ cpc = [t \in ConfigTasks |-> "idle"]
    /\ csnap = [t \in ConfigTasks |-> 0]
    /\ cseen = [t \in ConfigTasks |-> NoContent]
    /\ cpath = [t \in ConfigTasks |-> "none"]
    /\ installs = [v \in 0..MaxFsVersion |-> 0]
    /\ creads = [t \in ConfigTasks |-> <<>>]

\* the config file is (re)written: new contents, new modification time
write_primary(c) ==
    /\ fs_version < MaxFsVersion
    /\ fs_version' = fs_version + 1
    /\ primary' = [exists |-> TRUE, mtime |-> fs_version + 1, content |-> c]
    /\ UNCHANGED <<fallback, cache_entry, arcs, next_arc, rw_writer, cpc, csnap, cseen, cpath, installs, creads>>
    /\ UNCHANGED notConfig

\* the config file is rewritten within the granularity of its modification time
rewrite_primary_same_mtime(c) ==
    /\ fs_version < MaxFsVersion
    /\ primary.exists
    /\ primary.content # c
    /\ fs_version' = fs_version + 1
    /\ primary' = [primary EXCEPT !.content = c]
    /\ UNCHANGED <<fallback, cache_entry, arcs, next_arc, rw_writer, cpc, csnap, cseen, cpath, installs, creads>>
    /\ UNCHANGED notConfig

\* the config file is removed
remove_primary ==
    /\ fs_version < MaxFsVersion
    /\ primary.exists
    /\ fs_version' = fs_version + 1
    /\ primary' = [primary EXCEPT !.exists = FALSE]
    /\ UNCHANGED <<fallback, cache_entry, arcs, next_arc, rw_writer, cpc, csnap, cseen, cpath, installs, creads>>
    /\ UNCHANGED notConfig

\* the fallback file is rewritten
write_fallback ==
    /\ fs_version < MaxFsVersion
    /\ fs_version' = fs_version + 1
    /\ fallback' = [exists |-> TRUE, mtime |-> fs_version + 1, content |-> FallbackContent]
    /\ UNCHANGED <<primary, cache_entry, arcs, next_arc, rw_writer, cpc, csnap, cseen, cpath, installs, creads>>
    /\ UNCHANGED notConfig

\* the fallback file is removed
remove_fallback ==
    /\ fs_version < MaxFsVersion
    /\ fallback.exists
    /\ fs_version' = fs_version + 1
    /\ fallback' = [fallback EXCEPT !.exists = FALSE]
    /\ UNCHANGED <<primary, cache_entry, arcs, next_arc, rw_writer, cpc, csnap, cseen, cpath, installs, creads>>
    /\ UNCHANGED notConfig

\* load_api_config, the block under cache.read(): return the cached Arc or
\* go on to the write lock
load_read_phase(t) ==
    /\ cpc[t] = "idle"
    /\ rw_writer = 0
    /\ IF cache_hit(cache_entry)
       THEN /\ csnap' = [csnap EXCEPT ![t] = cache_entry.config]
            /\ cseen' = [cseen EXCEPT ![t] = arcs[cache_entry.config]]
            /\ cpath' = [cpath EXCEPT ![t] = "read_hit"]
            /\ cpc' = [cpc EXCEPT ![t] = "holding"]
       ELSE /\ cpc' = [cpc EXCEPT ![t] = "want_write"]
            /\ UNCHANGED <<csnap, cseen, cpath>>
    /\ UNCHANGED <<primary, fallback, fs_version, cache_entry, arcs, next_arc, rw_writer, installs, creads>>
    /\ UNCHANGED notConfig

\* load_api_config: cache.write() is granted
load_write_lock(t) ==
    /\ cpc[t] = "want_write"
    /\ rw_writer = 0
    /\ rw_writer' = t
    /\ cpc' = [cpc EXCEPT ![t] = "write_locked"]
    /\ UNCHANGED <<primary, fallback, fs_version, cache_entry, arcs, next_arc, csnap, cseen, cpath, installs, creads>>
    /\ UNCHANGED notConfig

\* load_api_config under the write lock: the re-check, then
\* load_config_with_paths, guard.entry = Some(new_entry), and the guard drops
load_write_phase(t) ==
    /\ cpc[t] = "write_locked"
    /\ rw_writer = t
    /\ rw_writer' = 0
    /\ IF cache_hit_locked(cache_entry)
       THEN /\ csnap' = [csnap EXCEPT ![t] = cache_entry.config]
            /\ cseen' = [cseen EXCEPT ![t] = arcs[cache_entry.config]]
            /\ cpath' = [cpath EXCEPT ![t] = "recheck_hit"]
            /\ cpc' = [cpc EXCEPT ![t] = "holding"]
            /\ creads' = [creads EXCEPT ![t] = <<>>]
            /\ UNCHANGED <<cache_entry, arcs, next_arc, installs>>
       ELSE LET new_entry == load_config_with_paths
            IN /\ creads' = [creads EXCEPT ![t] = new_entry.reads]
               /\ IF new_entry.err # ""
                  THEN /\ cpath' = [cpath EXCEPT ![t] = new_entry.err]
                       /\ cpc' = [cpc EXCEPT ![t] = "idle"]
                       /\ cache_entry' = entry_after_failed_load(cache_entry)
                       /\ UNCHANGED <<arcs, next_arc, installs, csnap, cseen>>
                  ELSE /\ next_arc < MaxArcs
                       /\ next_arc' = next_arc + 1
                       /\ arcs' = [arcs EXCEPT ![Arc_new] = new_entry.content]
                       /\ cache_entry' = [present |-> TRUE, config |-> Arc_new,
                                          source |-> new_entry.source,
                                          modified |-> new_entry.modified]
                       /\ installs' = [installs EXCEPT ![fs_version] = @ + 1]
                       /\ csnap' = [csnap EXCEPT ![t] = Arc_new]
                       /\ cseen' = [cseen EXCEPT ![t] = new_entry.content]
                       /\ cpath' = [cpath EXCEPT ![t] = "installed"]
                       /\ cpc' = [cpc EXCEPT ![t] = "holding"]
    /\ UNCHANGED <<primary, fallback, fs_version>>
    /\ UNCHANGED notConfig

\* the caller drops its Arc<ApiConfig> at the end of the request
drop_snapshot(t) ==
    /\ cpc[t] = "holding"
    /\ cpc' = [cpc EXCEPT ![t] = "idle"]
    /\ csnap' = [csnap EXCEPT ![t] = 0]
    /\ cseen' = [cseen EXCEPT ![t] = NoContent]
    /\ UNCHANGED <<primary, fallback, fs_version, cache_entry, arcs, next_arc, rw_writer, cpath, installs, creads>>
    /\ UNCHANGED notConfig

ConfigNext ==
    \/ \E c \in ConfigContents \cup {InvalidJson} :
        \/ write_primary(c)
        \/ rewrite_primary_same_mtime(c)
    \/ remove_primary
    \/ write_fallback
    \/ remove_fallback
    \/ \E t \in ConfigTasks :
        \/ load_read_phase(t)
        \/ load_write_lock(t)
        \/ load_write_phase(t)
        \/ drop_snapshot(t)

(***************************************************************************)
(* Route dispatcher and SSE streamer (handlers/router.rs,                  *)
(* handlers/routes.rs, handlers/response.rs, http_client.rs)               *)
(***************************************************************************)
RouterTasks == 1..NumRouterTasks

\* Option::None of a u32 option
None == -1

\* the requests a client sends: the outcome of parse_http_request and, for a
\* parsed request, its method, route path, body and the `stream` flag of
\* the payload
Requests ==
    {[parse_ok |-> FALSE, method |-> "UNKNOWN", route |-> "/unknown", has_body |-> FALSE, stream |-> FALSE],
     [parse_ok |-> TRUE, method |-> "GET", route |-> "/health", has_body |-> FALSE, stream |-> FALSE],
     [parse_ok |-> TRUE, method |-> "GET", route |-> "/nowhere", has_body |-> FALSE, stream |-> FALSE],
     [parse_ok |-> TRUE, method |-> "GET", route |-> "/v1/chat/completions", has_body |-> FALSE, stream |-> FALSE],
     [parse_ok |-> TRUE, method |-> "POST", route |-> "/v1/models", has_body |-> TRUE, stream |-> FALSE],
     [parse_ok |-> TRUE, method |-> "POST", route |-> "/v1/chat/completions", has_body |-> FALSE, stream |-> FALSE],
     [parse_ok |-> TRUE, method |-> "POST", route |-> "/v1/chat/completions", has_body |-> TRUE, stream |-> FALSE],
     [parse_ok |-> TRUE, method |-> "POST", route |-> "/v1/chat/completions", has_body |-> TRUE, stream |-> TRUE]}

NoRequest == [parse_ok |-> FALSE, method |-> "", route |-> "", has_body |-> FALSE, stream |-> FALSE]

\* a forwarding arm that also takes POST /v1/models
ForwardingRoutes_with_models ==
    {"/v1/chat/completions", "/v1/completions", "/v1/embeddings",
     "/v1/audio/transcriptions", "/v1/audio/translations", "/v1/messages", "/v1/models"}

\* the routes of the forwarding arm of handle_request
ForwardingRoutes ==
    {"/v1/chat/completions", "/v1/completions", "/v1/embeddings",
     "/v1/audio/transcriptions", "/v1/audio/translations", "/v1/messages"}

\* the routes answered by handle_request itself
LocalRoutes == {"/health", "/metrics", "/v1/models"}

\* the ApiConfig values load_api_config returns, reduced to the rate-limit
\* options of the route's endpoint, of the top level and of the environment
RouterConfigs ==
    {[endpoint_rpm |-> 30, endpoint_burst |-> 1, global_rpm |-> 60, global_burst |-> 2,
      env_rpm |-> None, env_burst |-> None],
     [endpoint_rpm |-> None, endpoint_burst |-> None, global_rpm |-> 0, global_burst |-> 2,
      env_rpm |-> 60, env_burst |-> None],
     [endpoint_rpm |-> None, endpoint_burst |-> None, global_rpm |-> None, global_burst |-> None,
      env_rpm |-> None, env_burst |-> 2]}

\* no config loaded yet
NoConfig ==
    [endpoint_rpm |-> None, endpoint_burst |-> None, global_rpm |-> None, global_burst |-> None,
     env_rpm |-> None, env_burst |-> None]

\* the stream_config of the plan: buffer_size and heartbeat_interval_secs
StreamConfigOfPlan == [buffer_size |-> 2, heartbeat_interval_secs |-> 1]

\* an or_else that prefers the later level
or_else_later(a, b) == IF b # None THEN b ELSE a

\* Option::or / or_else
or_else(a, b) == IF a # None THEN a ELSE b

\* a resolve_rate_limit_settings without the test for 0
resolve_rate_limit_settings_zero_limits(config) ==
    LET requests_per_minute ==
            or_else(config.endpoint_rpm, or_else(config.global_rpm, config.env_rpm))
        burst ==
            or_else(config.endpoint_burst, or_else(config.global_burst, config.env_burst))
    IN IF requests_per_minute = None
       THEN NoSettings
       ELSE [requests_per_minute |-> requests_per_minute,
             burst |-> Max(IF burst = None THEN requests_per_minute ELSE burst, 1)]

\* resolve_rate_limit_settings: NoSettings stands for Option::None
resolve_rate_limit_settings(config) ==
    LET requests_per_minute ==
            or_else(config.endpoint_rpm, or_else(config.global_rpm, config.env_rpm))
        burst ==
            or_else(config.endpoint_burst, or_else(config.global_burst, config.env_burst))
    IN IF requests_per_minute = None \/ requests_per_minute = 0
       THEN NoSettings
       ELSE [requests_per_minute |-> requests_per_minute,
             burst |-> Max(IF burst = None THEN requests_per_minute ELSE burst, 1)]

\* the std::io::ErrorKind values the streamer distinguishes, and one of the
\* others (TimedOut, UnexpectedEof, InvalidData, ...)
DisconnectKinds == {"BrokenPipe", "ConnectionReset"}
OtherKind == "TimedOut"
ErrorKinds == DisconnectKinds \cup {OtherKind}

\* what is written to a client socket: a response head or a whole response
\* with its status code, one byte relayed from upstream, or the heartbeat
SseHeader == [kind |-> "sse_header", status |-> 200, retry_after |-> None, byte |-> 0]
Response(status, retry) == [kind |-> "response", status |-> status, retry_after |-> retry, byte |-> 0]
UpstreamByte(i) == [kind |-> "upstream", status |-> 0, retry_after |-> None, byte |-> i]
heartbeat_msg == [kind |-> "heartbeat", status |-> 0, retry_after |-> None, byte |-> 0]

\* the bytes the upstream sends on a streaming response, in order
UpstreamBytes(from, to) == [i \in 1..(to - from) |-> UpstreamByte(from + i)]

\* a map_error_to_response that answers a BadRequest like an internal error
map_error_to_response_bad_request_500(err) ==
    CASE err = "Json" -> Response(400, None)
      [] err \in {"BadRequest", "ConfigRead", "ConfigParse"} -> Response(500, None)
      [] err \in {"Url", "Tls", "Upstream"} -> Response(502, None)
      [] err = "Io" -> Response(500, None)

\* map_error_to_response: the status of the error response
map_error_to_response(err) ==
    CASE err \in {"BadRequest", "Json"} -> Response(400, None)
      [] err \in {"ConfigRead", "ConfigParse"} -> Response(500, None)
      [] err \in {"Url", "Tls", "Upstream"} -> Response(502, None)
      [] err = "Io" -> Response(500, None)

\* write_all(items) followed by flush on the client socket of task t: what
\* reaches the socket, the error kind ("none": Ok) and the socket afterwards.
\* An open socket takes everything, or fails after a proper prefix; a socket
\* whose peer is gone fails with BrokenPipe or ConnectionReset.
write_all(t, items) ==
    IF client[t] = "open"
    THEN {[written |-> items, err |-> "none", client |-> "open"]}
         \cup {[written |-> SubSeq(items, 1, k), err |-> e,
                client |-> IF e \in DisconnectKinds THEN "closed" ELSE "failed"] :
                  k \in 0..(Len(items) - 1), e \in ErrorKinds}
    ELSE IF client[t] = "closed"
         THEN {[written |-> <<>>, err |-> e, client |-> "closed"] : e \in DisconnectKinds}
         ELSE {[written |-> <<>>, err |-> OtherKind, client |-> "failed"]}

\* the writes whose result the caller discards: `let _ = stream.write_all(..)`
write_ignored(t, items) ==
    \E w \in write_all(t, items) :
        /\ client_out' = [client_out EXCEPT ![t] = @ \o w.written]
        /\ client' = [client EXCEPT ![t] = w.client]

RouterInit ==
    /\ accepted = 0
    /\ hpc = [t \in RouterTasks |-> "idle"]
    /\ request = [t \in RouterTasks |-> NoRequest]
    /\ hsettings = [t \in RouterTasks |-> NoSettings]
    /\ hnow = [t \in RouterTasks |-> 0]
    /\ hdecision = [t \in RouterTasks |-> "none"]
    /\ hresult = [t \in RouterTasks |-> "none"]
    /\ planned = [t \in RouterTasks |-> FALSE]
    /\ upstream_sent = [t \in RouterTasks |-> 0]
    /\ hconn = [t \in RouterTasks |-> "none"]
    /\ upstream_pos = [t \in RouterTasks |-> 0]
    /\ buffer = [t \in RouterTasks |-> <<>>]
    /\ last_activity = [t \in RouterTasks |-> 0]
    /\ client = [t \in RouterTasks |-> "open"]
    /\ client_out = [t \in RouterTasks |-> <<>>]
    /\ recorded = [t \in RouterTasks |-> <<>>]
    /\ active_connections = 0
    /\ upstream_avail = [t \in RouterTasks |-> 0]
    /\ arrived_at = [t \in RouterTasks |-> 0]
    /\ silence = [t \in RouterTasks |-> 0]
    /\ last_relay = [t \in RouterTasks |-> 0]
    /\ upstream_outcome = [t \in RouterTasks |-> "none"]
    /\ hconfig = [t \in RouterTasks |-> NoConfig]

\* record_request(route, method, status): one row of requests_total
record_request(rows, status) == Append(rows, status)

\* ConnectionGuard::new(): the gauge counts the connection
ConnectionGuard_new(gauge) == gauge + 1

\* a guard whose Drop leaves the gauge alone
ConnectionGuard_leaked(gauge) == gauge

\* Drop for ConnectionGuard: ACTIVE_CONNECTIONS.dec()
ConnectionGuard_drop(gauge) == gauge - 1

\* a None arm that asks for more than heartbeat_interval
heartbeat_due_later(now, last) ==
    duration_since(now, last) > StreamConfigOfPlan.heartbeat_interval_secs

\* the test of the relay loop's None arm
heartbeat_due(now, last) ==
    duration_since(now, last) >= StreamConfigOfPlan.heartbeat_interval_secs

\* the accept loop of main spawns handle_request on a new connection; the
\* task starts with the locals of a fresh call and its _connection_guard
accept(t) ==
    /\ hpc[t] \in {"idle", "done"}
    /\ accepted < MaxConnections
    /\ accepted' = accepted + 1
    /\ hpc' = [hpc EXCEPT ![t] = "accept"]
    /\ request' = [request EXCEPT ![t] = NoRequest]
    /\ hsettings' = [hsettings EXCEPT ![t] = NoSettings]
    /\ hnow' = [hnow EXCEPT ![t] = 0]
    /\ hdecision' = [hdecision EXCEPT ![t] = "none"]
    /\ hresult' = [hresult EXCEPT ![t] = "none"]
    /\ planned' = [planned EXCEPT ![t] = FALSE]
    /\ upstream_sent' = [upstream_sent EXCEPT ![t] = 0]
    /\ hconn' = [hconn EXCEPT ![t] = "none"]
    /\ upstream_pos' = [upstream_pos EXCEPT ![t] = 0]
    /\ buffer' = [buffer EXCEPT ![t] = <<>>]
    /\ last_activity' = [last_activity EXCEPT ![t] = 0]
    /\ client' = [client EXCEPT ![t] = "open"]
    /\ client_out' = [client_out EXCEPT ![t] = <<>>]
    /\ recorded' = [recorded EXCEPT ![t] = <<>>]
    /\ active_connections' = ConnectionGuard_new(active_connections)
    /\ upstream_avail' = [upstream_avail EXCEPT ![t] = 0]
    /\ arrived_at' = [arrived_at EXCEPT ![t] = 0]
    /\ silence' = [silence EXCEPT ![t] = 0]
    /\ last_relay' = [last_relay EXCEPT ![t] = 0]
    /\ upstream_outcome' = [upstream_outcome EXCEPT ![t] = "none"]
    /\ hconfig' = [hconfig EXCEPT ![t] = NoConfig]
    /\ UNCHANGED <<clock, buckets, notRouter>>

\* handle_request: the read loop fails or the connection carries no bytes
read_request_err(t) ==
    /\ hpc[t] = "accept"
    /\ hpc' = [hpc EXCEPT ![t] = "return"]
    /\ UNCHANGED <<request, hsettings, hnow, hdecision, hresult, planned, upstream_sent,
                   hconn, upstream_pos, buffer, last_activity, client, client_out, recorded>>
    /\ UNCHANGED <<accepted, active_connections, hconfig, upstreamVars, clock, buckets, notRouter>>

\* handle_request: parse_http_request fails, 400 is written
parse_http_request_err(t) ==
    /\ hpc[t] = "accept"
    /\ \E r \in Requests :
        /\ ~r.parse_ok
        /\ request' = [request EXCEPT ![t] = r]
    /\ write_ignored(t, <<map_error_to_response("BadRequest")>>)
    /\ recorded' = [recorded EXCEPT ![t] = record_request(@, 400)]
    /\ hpc' = [hpc EXCEPT ![t] = "return"]
    /\ UNCHANGED <<hsettings, hnow, hdecision, hresult, planned, upstream_sent,
                   hconn, upstream_pos, buffer, last_activity>>
    /\ UNCHANGED <<accepted, active_connections, hconfig, upstreamVars, clock, buckets, notRouter>>

\* handle_request: the request is read and parsed
parse_http_request_ok(t) ==
    /\ hpc[t] = "accept"
    /\ \E r \in Requests :
        /\ r.parse_ok
        /\ request' = [request EXCEPT ![t] = r]
    /\ hpc' = [hpc EXCEPT ![t] = "dispatch"]
    /\ UNCHANGED <<hsettings, hnow, hdecision, hresult, planned, upstream_sent,
                   hconn, upstream_pos, buffer, last_activity, client, client_out, recorded>>
    /\ UNCHANGED <<accepted, active_connections, hconfig, upstreamVars, clock, buckets, notRouter>>

\* handle_request: GET /health, /metrics, /v1/models are answered locally
dispatch_local(t) ==
    /\ hpc[t] = "dispatch"
    /\ request[t].method = "GET" /\ request[t].route \in LocalRoutes
    /\ write_ignored(t, <<Response(200, None)>>)
    /\ recorded' = [recorded EXCEPT ![t] = record_request(@, 200)]
    /\ hpc' = [hpc EXCEPT ![t] = "return"]
    /\ UNCHANGED <<request, hsettings, hnow, hdecision, hresult, planned, upstream_sent,
                   hconn, upstream_pos, buffer, last_activity>>
    /\ UNCHANGED <<accepted, active_connections, hconfig, upstreamVars, clock, buckets, notRouter>>

\* handle_request: the default arm of the match
dispatch_not_found(t) ==
    /\ hpc[t] = "dispatch"
    /\ ~(request[t].method = "GET" /\ request[t].route \in LocalRoutes)
    /\ ~(request[t].method = "POST" /\ request[t].route \in ForwardingRoutes)
    /\ write_ignored(t, <<Response(404, None)>>)
    /\ recorded' = [recorded EXCEPT ![t] = record_request(@, 404)]
    /\ hpc' = [hpc EXCEPT ![t] = "return"]
    /\ UNCHANGED <<request, hsettings, hnow, hdecision, hresult, planned, upstream_sent,
                   hconn, upstream_pos, buffer, last_activity>>
    /\ UNCHANGED <<accepted, active_connections, hconfig, upstreamVars, clock, buckets, notRouter>>

\* forwarding arm: load_api_config returns a config; the rate-limit settings
\* of the route are resolved from it
load_api_config_ok(t) ==
    /\ hpc[t] = "dispatch"
    /\ request[t].method = "POST" /\ request[t].route \in ForwardingRoutes
    /\ \E config \in RouterConfigs :
        /\ hconfig' = [hconfig EXCEPT ![t] = config]
        /\ hsettings' = [hsettings EXCEPT ![t] = resolve_rate_limit_settings(config)]
    /\ hpc' = [hpc EXCEPT ![t] = "rate_limit"]
    /\ UNCHANGED <<request, hnow, hdecision, hresult, planned, upstream_sent,
                   hconn, upstream_pos, buffer, last_activity, client, client_out, recorded>>
    /\ UNCHANGED <<accepted, active_connections, upstreamVars, clock, buckets, notRouter>>

\* forwarding arm: load_api_config fails, 500 is written
load_api_config_err(t) ==
    /\ hpc[t] = "dispatch"
    /\ request[t].method = "POST" /\ request[t].route \in ForwardingRoutes
    /\ \E err \in {"ConfigRead", "ConfigParse"} :
        write_ignored(t, <<map_error_to_response(err)>>)
    /\ recorded' = [recorded EXCEPT ![t] = record_request(@, 500)]
    /\ hpc' = [hpc EXCEPT ![t] = "return"]
    /\ UNCHANGED <<request, hsettings, hnow, hdecision, hresult, planned, upstream_sent,
                   hconn, upstream_pos, buffer, last_activity>>
    /\ UNCHANGED <<accepted, active_connections, hconfig, upstreamVars, clock, buckets, notRouter>>

\* forwarding arm: the route has no rate-limit settings
rate_limit_none(t) ==
    /\ hpc[t] = "rate_limit"
    /\ hsettings[t] = NoSettings
    /\ hpc' = [hpc EXCEPT ![t] = "route"]
    /\ UNCHANGED <<request, hsettings, hnow, hdecision, hresult, planned, upstream_sent,
                   hconn, upstream_pos, buffer, last_activity, client, client_out, recorded>>
    /\ UNCHANGED <<accepted, active_connections, hconfig, upstreamVars, clock, buckets, notRouter>>

\* forwarding arm: RATE_LIMITER.check up to `let now = Instant::now()`
rate_limit_now(t) ==
    /\ hpc[t] = "rate_limit"
    /\ hsettings[t] # NoSettings
    /\ hnow' = [hnow EXCEPT ![t] = clock]
    /\ hpc' = [hpc EXCEPT ![t] = "check"]
    /\ UNCHANGED <<request, hsettings, hdecision, hresult, planned, upstream_sent,
                   hconn, upstream_pos, buffer, last_activity, client, client_out, recorded>>
    /\ UNCHANGED <<accepted, active_connections, hconfig, upstreamVars, clock, buckets, notRouter>>

\* the Limited arm without its `return`: 429 is written and the request goes
\* on to handle_route
rate_limit_falls_through(t) ==
    /\ hpc[t] = "check"
    /\ LET res == check(buckets, "client_a", hsettings[t], hnow[t])
       IN /\ buckets' = [buckets EXCEPT !["client_a"] = res.bucket]
          /\ IF res.allowed
             THEN /\ hdecision' = [hdecision EXCEPT ![t] = "Allowed"]
                  /\ UNCHANGED <<client, client_out, recorded>>
             ELSE /\ hdecision' = [hdecision EXCEPT ![t] = "Limited"]
                  /\ write_ignored(t, <<Response(429, res.retry_after_seconds)>>)
                  /\ recorded' = [recorded EXCEPT ![t] = record_request(@, 429)]
    /\ hpc' = [hpc EXCEPT ![t] = "route"]
    /\ UNCHANGED <<request, hsettings, hnow, hresult, planned, upstream_sent,
                   hconn, upstream_pos, buffer, last_activity>>
    /\ UNCHANGED <<accepted, active_connections, hconfig, upstreamVars, clock, notRouter>>

\* forwarding arm: the rest of RATE_LIMITER.check and the match on its
\* decision; Limited writes 429 with Retry-After and returns
rate_limit_check(t) ==
    /\ hpc[t] = "check"
    /\ LET res == check(buckets, "client_a", hsettings[t], hnow[t])
       IN /\ buckets' = [buckets EXCEPT !["client_a"] = res.bucket]
          /\ IF res.allowed
             THEN /\ hdecision' = [hdecision EXCEPT ![t] = "Allowed"]
                  /\ hpc' = [hpc EXCEPT ![t] = "route"]
                  /\ UNCHANGED <<client, client_out, recorded>>
             ELSE /\ hdecision' = [hdecision EXCEPT ![t] = "Limited"]
                  /\ write_ignored(t, <<Response(429, res.retry_after_seconds)>>)
                  /\ recorded' = [recorded EXCEPT ![t] = record_request(@, 429)]
                  /\ hpc' = [hpc EXCEPT ![t] = "return"]
    /\ UNCHANGED <<request, hsettings, hnow, hresult, planned, upstream_sent,
                   hconn, upstream_pos, buffer, last_activity>>
    /\ UNCHANGED <<accepted, active_connections, hconfig, upstreamVars, clock, notRouter>>

\* forward_json_route: a request without a body is a BadRequest
forward_json_route_empty(t) ==
    /\ hpc[t] = "route"
    /\ ~request[t].has_body
    /\ hresult' = [hresult EXCEPT ![t] = "BadRequest"]
    /\ hpc' = [hpc EXCEPT ![t] = "tail"]
    /\ UNCHANGED <<request, hsettings, hnow, hdecision, planned, upstream_sent,
                   hconn, upstream_pos, buffer, last_activity, client, client_out, recorded>>
    /\ UNCHANGED <<accepted, active_connections, hconfig, upstreamVars, clock, buckets, notRouter>>

\* the status lines an upstream answers with
UpstreamStatuses == {200, 500}

\* the error of CONNECTION_POOL.acquire when create_connection fails:
\* TcpStream::connect(..).await? converts the io::Error with From, the TLS
\* handshake maps its error to RouterError::Tls
create_connection_error(failure) ==
    IF failure = "connect" THEN "Io" ELSE "Tls"

\* the result of send_http_request once the response has been read:
\* send_request_on_connection returns the bytes whatever the status line says
send_http_request_result(status) == "Ok"

\* forward_json_route, should_stream false: prepare_forward_plan,
\* forward_to_upstream (send_http_request) and write_success
forward_json_route_plain(t) ==
    /\ hpc[t] = "route"
    /\ request[t].has_body /\ ~request[t].stream
    /\ planned' = [planned EXCEPT ![t] = TRUE]
    /\ \/ \* Url::parse fails
          /\ hresult' = [hresult EXCEPT ![t] = "Url"]
          /\ upstream_outcome' = [upstream_outcome EXCEPT ![t] = "url"]
          /\ UNCHANGED <<upstream_sent, hconn, client, client_out>>
       \/ \* CONNECTION_POOL.acquire fails in create_connection
          /\ \E failure \in {"connect", "tls"} :
                /\ hresult' = [hresult EXCEPT ![t] = create_connection_error(failure)]
                /\ upstream_outcome' = [upstream_outcome EXCEPT ![t] = failure]
          /\ UNCHANGED <<upstream_sent, hconn, client, client_out>>
       \/ \* send_request_on_connection fails: recycle_connection
          /\ hresult' = [hresult EXCEPT ![t] = "Io"]
          /\ upstream_outcome' = [upstream_outcome EXCEPT ![t] = "io"]
          /\ upstream_sent' = [upstream_sent EXCEPT ![t] = @ + 1]
          /\ hconn' = [hconn EXCEPT ![t] = "recycled"]
          /\ UNCHANGED <<client, client_out>>
       \/ \* the response is read: return_connection, then write_success
          /\ upstream_sent' = [upstream_sent EXCEPT ![t] = @ + 1]
          /\ hconn' = [hconn EXCEPT ![t] = "returned"]
          /\ \E status \in UpstreamStatuses :
                /\ upstream_outcome' = [upstream_outcome EXCEPT ![t] = IF status = 200 THEN "status_2xx" ELSE "status_5xx"]
                /\ IF send_http_request_result(status) = "Ok"
                   THEN \E w \in write_all(t, <<Response(200, None)>>) :
                           /\ client_out' = [client_out EXCEPT ![t] = @ \o w.written]
                           /\ client' = [client EXCEPT ![t] = w.client]
                           /\ hresult' = [hresult EXCEPT ![t] = IF w.err = "none" THEN "Ok" ELSE "Io"]
                   ELSE /\ hresult' = [hresult EXCEPT ![t] = send_http_request_result(status)]
                        /\ UNCHANGED <<client, client_out>>
    /\ hpc' = [hpc EXCEPT ![t] = "tail"]
    /\ UNCHANGED <<request, hsettings, hnow, hdecision, upstream_pos, buffer, last_activity, recorded>>
    /\ UNCHANGED <<accepted, active_connections, hconfig, upstream_avail, arrived_at, silence, last_relay,
                   clock, buckets, notRouter>>

\* forward_json_route, should_stream true: prepare_forward_plan and
\* handle_streaming_request up to CONNECTION_POOL.acquire
handle_streaming_request(t) ==
    /\ hpc[t] = "route"
    /\ request[t].has_body /\ request[t].stream
    /\ planned' = [planned EXCEPT ![t] = TRUE]
    /\ \/ /\ \E err \in {"Url", "Io", "Tls"} : hresult' = [hresult EXCEPT ![t] = err]
          /\ hpc' = [hpc EXCEPT ![t] = "tail"]
          /\ UNCHANGED hconn
       \/ /\ hconn' = [hconn EXCEPT ![t] = "held"]
          /\ hpc' = [hpc EXCEPT ![t] = "stream_send"]
          /\ UNCHANGED hresult
    /\ UNCHANGED <<request, hsettings, hnow, hdecision, upstream_sent,
                   upstream_pos, buffer, last_activity, client, client_out, recorded>>
    /\ UNCHANGED <<accepted, active_connections, hconfig, upstreamVars, clock, buckets, notRouter>>

\* the match of handle_streaming_request on the streamer's result, and the
\* `?` of forward_json_route: Ok returns the connection to the pool, Err
\* recycles it; handle_route hands the result to handle_request
stream_returns(t, res) ==
    /\ hconn' = [hconn EXCEPT ![t] = IF res = "Ok" THEN "returned" ELSE "recycled"]
    /\ hresult' = [hresult EXCEPT ![t] = res]
    /\ hpc' = [hpc EXCEPT ![t] = "tail"]

\* stream_response_to_client: the request is written to the upstream
stream_send_request(t) ==
    /\ hpc[t] = "stream_send"
    /\ upstream_sent' = [upstream_sent EXCEPT ![t] = @ + 1]
    /\ \/ /\ hpc' = [hpc EXCEPT ![t] = "stream_header"]
          /\ UNCHANGED <<hconn, hresult>>
       \/ stream_returns(t, "Io")
    /\ UNCHANGED <<request, hsettings, hnow, hdecision, planned,
                   upstream_pos, buffer, last_activity, client, client_out, recorded>>
    /\ UNCHANGED <<accepted, active_connections, hconfig, upstreamVars, clock, buckets, notRouter>>

\* stream_response_to_client: the 200 text/event-stream header block is
\* written to the client; the relay loop starts
stream_write_header(t) ==
    /\ hpc[t] = "stream_header"
    /\ \E w \in write_all(t, <<SseHeader>>) :
        /\ client_out' = [client_out EXCEPT ![t] = @ \o w.written]
        /\ client' = [client EXCEPT ![t] = w.client]
        /\ IF w.err = "none"
           THEN /\ hpc' = [hpc EXCEPT ![t] = "relay"]
                /\ last_activity' = [last_activity EXCEPT ![t] = clock]
                /\ arrived_at' = [arrived_at EXCEPT ![t] = clock]
                /\ last_relay' = [last_relay EXCEPT ![t] = clock]
                /\ UNCHANGED <<hconn, hresult>>
           ELSE /\ stream_returns(t, "Io")
                /\ UNCHANGED <<last_activity, arrived_at, last_relay>>
    /\ UNCHANGED <<request, hsettings, hnow, hdecision, planned, upstream_sent,
                   upstream_pos, buffer, recorded, upstream_avail, silence>>
    /\ UNCHANGED <<accepted, active_connections, hconfig, upstream_outcome, clock, buckets, notRouter>>

\* the upstream server sends the next bytes of its response, at most a
\* buffer of them at once; they wait in the socket until a read returns them
upstream_delivers(t) ==
    /\ hpc[t] \in {"relay", "relay_write"}
    /\ upstream_avail[t] = 0
    /\ upstream_pos[t] < MaxUpstreamBytes
    /\ \E n \in 1..Min(StreamConfigOfPlan.buffer_size, MaxUpstreamBytes - upstream_pos[t]) :
        upstream_avail' = [upstream_avail EXCEPT ![t] = n]
    /\ silence' = [silence EXCEPT ![t] = duration_since(clock, arrived_at[t])]
    /\ arrived_at' = [arrived_at EXCEPT ![t] = clock]
    /\ UNCHANGED <<hpc, request, hsettings, hnow, hdecision, hresult, planned, upstream_sent,
                   hconn, upstream_pos, buffer, last_activity, client, client_out, recorded,
                   last_relay>>
    /\ UNCHANGED <<accepted, active_connections, hconfig, upstream_outcome, clock, buckets, notRouter>>

\* relay loop, Some(Ok(n)) with n > 0: the read future is polled first and
\* returns the bytes the socket holds, which are then in buffer[..n]
relay_read(t) ==
    /\ hpc[t] = "relay"
    /\ upstream_avail[t] > 0
    /\ buffer' = [buffer EXCEPT ![t] =
                     UpstreamBytes(upstream_pos[t], upstream_pos[t] + upstream_avail[t])]
    /\ upstream_pos' = [upstream_pos EXCEPT ![t] = @ + upstream_avail[t]]
    /\ upstream_avail' = [upstream_avail EXCEPT ![t] = 0]
    /\ hpc' = [hpc EXCEPT ![t] = "relay_write"]
    /\ UNCHANGED <<request, hsettings, hnow, hdecision, hresult, planned, upstream_sent,
                   hconn, last_activity, client, client_out, recorded,
                   arrived_at, silence, last_relay>>
    /\ UNCHANGED <<accepted, active_connections, hconfig, upstream_outcome, clock, buckets, notRouter>>

\* relay loop, Some(Ok(n)): client.write_all(&buffer[..n]) and flush; a
\* disconnected client ends the stream with Ok, another error with Err
relay_write(t) ==
    /\ hpc[t] = "relay_write"
    /\ \E w \in write_all(t, buffer[t]) :
        /\ client_out' = [client_out EXCEPT ![t] = @ \o w.written]
        /\ client' = [client EXCEPT ![t] = w.client]
        /\ IF w.err = "none"
           THEN /\ hpc' = [hpc EXCEPT ![t] = "relay"]
                /\ last_activity' = [last_activity EXCEPT ![t] = clock]
                /\ last_relay' = [last_relay EXCEPT ![t] = clock]
                /\ UNCHANGED <<hconn, hresult>>
           ELSE /\ stream_returns(t, IF w.err \in DisconnectKinds THEN "Ok" ELSE "Io")
                /\ UNCHANGED <<last_activity, last_relay>>
    /\ buffer' = [buffer EXCEPT ![t] = <<>>]
    /\ UNCHANGED <<request, hsettings, hnow, hdecision, planned, upstream_sent,
                   upstream_pos, recorded, upstream_avail, arrived_at, silence>>
    /\ UNCHANGED <<accepted, active_connections, hconfig, upstream_outcome, clock, buckets, notRouter>>

\* relay loop, Some(Ok(0)): the upstream closed after the bytes it
\* delivered were read, the loop breaks
relay_eof(t) ==
    /\ hpc[t] = "relay"
    /\ upstream_avail[t] = 0
    /\ stream_returns(t, "Ok")
    /\ UNCHANGED <<request, hsettings, hnow, hdecision, planned, upstream_sent,
                   upstream_pos, buffer, last_activity, client, client_out, recorded>>
    /\ UNCHANGED <<accepted, active_connections, hconfig, upstreamVars, clock, buckets, notRouter>>

\* relay loop, Some(Err(e)): a reset or broken upstream ends the stream
\* with Ok, any other read error with Err
relay_read_err(t) ==
    /\ hpc[t] = "relay"
    /\ upstream_avail[t] = 0
    /\ \E e \in ErrorKinds :
        stream_returns(t, IF e \in DisconnectKinds THEN "Ok" ELSE "Io")
    /\ UNCHANGED <<request, hsettings, hnow, hdecision, planned, upstream_sent,
                   upstream_pos, buffer, last_activity, client, client_out, recorded>>
    /\ UNCHANGED <<accepted, active_connections, hconfig, upstreamVars, clock, buckets, notRouter>>

\* relay loop, None: the read is pending, the timer won and
\* heartbeat_interval has elapsed since last_activity, the heartbeat is
\* written (a timer that wins earlier changes nothing)
relay_heartbeat(t) ==
    /\ hpc[t] = "relay"
    /\ upstream_avail[t] = 0
    /\ heartbeat_due(clock, last_activity[t])
    /\ \E w \in write_all(t, <<heartbeat_msg>>) :
        /\ client_out' = [client_out EXCEPT ![t] = @ \o w.written]
        /\ client' = [client EXCEPT ![t] = w.client]
        /\ IF w.err = "none"
           THEN /\ last_activity' = [last_activity EXCEPT ![t] = clock]
                /\ UNCHANGED <<hpc, hconn, hresult>>
           ELSE /\ stream_returns(t, IF w.err \in DisconnectKinds THEN "Ok" ELSE "Io")
                /\ UNCHANGED last_activity
    /\ UNCHANGED <<request, hsettings, hnow, hdecision, planned, upstream_sent,
                   upstream_pos, buffer, recorded>>
    /\ UNCHANGED <<accepted, active_connections, hconfig, upstreamVars, clock, buckets, notRouter>>

\* handle_request after handle_route: `match result`, whose Err arm writes
\* map_error_to_response(&err)
match_result(t) ==
    /\ hpc[t] = "tail"
    /\ IF hresult[t] = "Ok"
       THEN UNCHANGED <<client, client_out>>
       ELSE write_ignored(t, <<map_error_to_response(hresult[t])>>)
    /\ hpc' = [hpc EXCEPT ![t] = "tail_record"]
    /\ UNCHANGED <<request, hsettings, hnow, hdecision, hresult, planned, upstream_sent,
                   hconn, upstream_pos, buffer, last_activity, recorded>>
    /\ UNCHANGED <<accepted, active_connections, hconfig, upstreamVars, clock, buckets, notRouter>>

\* handle_request, the statements after the match: `if let Err(err) = result`
\* writes the error response again and records 500, else 200 is recorded
record_result(t) ==
    /\ hpc[t] = "tail_record"
    /\ IF hresult[t] = "Ok"
       THEN /\ recorded' = [recorded EXCEPT ![t] = record_request(@, 200)]
            /\ UNCHANGED <<client, client_out>>
       ELSE /\ write_ignored(t, <<map_error_to_response(hresult[t])>>)
            /\ recorded' = [recorded EXCEPT ![t] = record_request(@, 500)]
    /\ hpc' = [hpc EXCEPT ![t] = "return"]
    /\ UNCHANGED <<request, hsettings, hnow, hdecision, hresult, planned, upstream_sent,
                   hconn, upstream_pos, buffer, last_activity>>
    /\ UNCHANGED <<accepted, active_connections, hconfig, upstreamVars, clock, buckets, notRouter>>

\* the peer of the client socket goes away while the request is handled
client_disconnect(t) ==
    /\ hpc[t] \notin {"idle", "accept", "return", "done"}
    /\ client[t] = "open"
    /\ client' = [client EXCEPT ![t] = "closed"]
    /\ UNCHANGED <<hpc, request, hsettings, hnow, hdecision, hresult, planned, upstream_sent,
                   hconn, upstream_pos, buffer, last_activity, client_out, recorded>>
    /\ UNCHANGED <<accepted, active_connections, hconfig, upstreamVars, clock, buckets, notRouter>>

\* handle_request returns, by an early `return` or at its end: the locals
\* are dropped, _connection_guard among them
handle_request_returns(t) ==
    /\ hpc[t] = "return"
    /\ hpc' = [hpc EXCEPT ![t] = "done"]
    /\ active_connections' = ConnectionGuard_drop(active_connections)
    /\ UNCHANGED <<accepted, request, hsettings, hnow, hdecision, hresult, planned, upstream_sent,
                   hconn, upstream_pos, buffer, last_activity, client, client_out, recorded>>
    /\ UNCHANGED <<hconfig, upstreamVars, clock, buckets, notRouter>>

\* time passes while every relay loop waits: one that has bytes to read or a
\* heartbeat to write is polled first (a loop blocked in a client write is
\* not waiting)
time_passes ==
    /\ \A t \in RouterTasks :
          hpc[t] = "relay" =>
              /\ upstream_avail[t] = 0
              /\ ~heartbeat_due(clock, last_activity[t])
    /\ Tick

RouterNext ==
    \/ time_passes
    \/ \E t \in RouterTasks :
        \/ accept(t)
        \/ read_request_err(t)
        \/ parse_http_request_err(t)
        \/ parse_http_request_ok(t)
        \/ dispatch_local(t)
        \/ dispatch_not_found(t)
        \/ load_api_config_ok(t)
        \/ load_api_config_err(t)
        \/ rate_limit_none(t)
        \/ rate_limit_now(t)
        \/ rate_limit_check(t)
        \/ forward_json_route_empty(t)
        \/ forward_json_route_plain(t)
        \/ handle_streaming_request(t)
        \/ stream_send_request(t)
        \/ stream_write_header(t)
        \/ upstream_delivers(t)
        \/ relay_read(t)
        \/ relay_write(t)
        \/ relay_eof(t)
        \/ relay_read_err(t)
        \/ relay_heartbeat(t)
        \/ match_result(t)
        \/ record_result(t)
        \/ client_disconnect(t)
        \/ handle_request_returns(t)

PoolNext ==
    \/ \E t \in PoolTasks :
        \/ acquire(t)
        \/ acquire_try_recv(t)
        \/ acquire_expired_sub(t)
        \/ acquire_load(t)
        \/ acquire_fetch_add(t)
        \/ acquire_wait(t)
        \/ acquire_recv(t)
        \/ create_connection_ok(t)
        \/ create_connection_err(t)
        \/ send_request_on_connection_ok(t)
        \/ send_request_on_connection_err(t)
        \/ return_connection(t)
        \/ return_connection_sub(t)
        \/ recycle_connection(t)
    \/ \E i \in 1..PoolMaxSize : is_expired(i)

(***************************************************************************)
(* Request rewriting of the forward path (handlers/routes.rs,              *)
(* handlers/plan.rs, models.rs, http_client.rs).  These functions are      *)
(* pure: fn_arg holds one call and fn_ret what it returned.                *)
(***************************************************************************)
NoCall == [fn |-> "none"]
NoRet == [fn |-> "none"]

\* a JSON value is its type and its text; Absent is a member the object
\* does not have
Absent == [type |-> "absent", v |-> ""]
JsonValue(type, text) == [type |-> type, v |-> text]

\* the members of the objects clients send to /v1/chat/completions; top_p
\* is a member of the OpenAI API that ChatCompletionRequest does not declare
JsonKeys == {"model", "messages", "temperature", "stream", "max_tokens", "top_p"}

ClientObjects ==
    {[model |-> m, messages |-> ms, temperature |-> te, stream |-> st,
      max_tokens |-> mt, top_p |-> tp] :
        m \in {Absent, JsonValue("string", "gpt-4"), JsonValue("string", "qwen-max")},
        ms \in {Absent, JsonValue("array", "[{role: user, content: Hi}]")},
        te \in {Absent, JsonValue("null", ""), JsonValue("number", "0.7"),
                JsonValue("number", "0.123456789")},
        st \in {Absent, JsonValue("bool", "true"), JsonValue("bool", "false")},
        mt \in {Absent, JsonValue("number", "100")},
        tp \in {Absent, JsonValue("number", "0.9")}}

\* ApiConfig.model_mapping: None (the empty map) or one entry
ModelMappings ==
    {<<>>,
     [m \in {"gpt-4"} |-> "qwen-max"],
     [m \in {"gpt-4", "qwen-max"} |-> IF m = "gpt-4" THEN "qwen-max" ELSE "qwen-plus"]}

\* map_model_name: the mapped name, or the name itself
map_model_name(config, model) ==
    IF model \in DOMAIN config.model_mapping THEN config.model_mapping[model] ELSE model

\* a conversion that loses a digit each time the number passes through
as_f32_lossy(text) ==
    IF text = "0.123456789" THEN "0.12345679"
    ELSE IF text = "0.12345679" THEN "0.1234568" ELSE text

\* a JSON number read into an f32 and written back: the shortest decimal
\* that gives the same f32
as_f32(text) == IF text = "0.123456789" THEN "0.12345679" ELSE text

\* serde_json::from_slice::<ChatCompletionRequest>: model and messages are
\* required, an Option is None for null or a missing member, a member the
\* struct does not declare is ignored
from_slice(o) ==
    IF /\ o.model.type = "string"
       /\ o.messages.type = "array"
       /\ o.temperature.type \in {"absent", "null", "number"}
       /\ o.stream.type \in {"absent", "null", "bool"}
       /\ o.max_tokens.type \in {"absent", "null", "number"}
    THEN [ok |-> TRUE,
          model |-> o.model.v,
          messages |-> o.messages,
          temperature |-> IF o.temperature.type = "number"
                          THEN JsonValue("number", as_f32(o.temperature.v)) ELSE Absent,
          stream |-> IF o.stream.type = "bool" THEN o.stream ELSE Absent,
          max_tokens |-> IF o.max_tokens.type = "number" THEN o.max_tokens ELSE Absent]
    ELSE [ok |-> FALSE]

\* adjust_chat_request
adjust_chat_request(config, payload) ==
    [payload EXCEPT !.model = map_model_name(config, @)]

\* serde_json::to_vec(&payload), as the object the bytes decode to: the
\* fields of the struct, an Option that is None skipped
to_vec(payload) ==
    [k \in JsonKeys |->
        CASE k = "model" -> JsonValue("string", payload.model)
          [] k \in {"messages", "temperature", "stream", "max_tokens"} -> payload[k]
          [] OTHER -> Absent]

JsonCalls ==
    {[fn |-> "forward_json_route", body |-> o, config |-> [model_mapping |-> mm]] :
        o \in ClientObjects, mm \in ModelMappings}

\* forward_json_route from the body check to body_bytes
forward_json_route_payload ==
    /\ fn_arg.fn = "forward_json_route"
    /\ fn_ret = NoRet
    /\ LET payload == from_slice(fn_arg.body) IN
        fn_ret' = IF payload.ok
                  THEN [fn |-> "forward_json_route", result |-> "Ok",
                        body_bytes |-> to_vec(adjust_chat_request(fn_arg.config, payload))]
                  ELSE [fn |-> "forward_json_route", result |-> "Json"]
    /\ UNCHANGED <<fn_arg, poolVars, rateVars, configVars, routerVars, trackerVars>>

\* forward_json_route from the body check to body_bytes, on the body_bytes
\* of a first pass with the same config
forward_json_route_payload_again ==
    /\ fn_arg.fn = "forward_json_route"
    /\ fn_ret.fn = "forward_json_route"
    /\ fn_ret.result = "Ok"
    /\ LET payload == from_slice(fn_ret.body_bytes) IN
        fn_ret' = IF payload.ok
                  THEN [fn |-> "forward_json_route_again", result |-> "Ok",
                        first |-> fn_ret.body_bytes,
                        body_bytes |-> to_vec(adjust_chat_request(fn_arg.config, payload))]
                  ELSE [fn |-> "forward_json_route_again", result |-> "Json",
                        first |-> fn_ret.body_bytes]
    /\ UNCHANGED <<fn_arg, poolVars, rateVars, configVars, routerVars, trackerVars>>

\* multipart bodies are sequences of byte strings that the scan of
\* find_model_value_bounds never splits; filename="model" is the bytes
\* `; file` followed by the bytes of Marker
Marker == "name=\"model\""
CRLF == "\r\n"

\* the parts of a body: the model field and a file field
MultipartParts ==
    {[name |-> "model", filename |-> "", ctype |-> c, value |-> v] :
        c \in BOOLEAN, v \in {"whisper-1", "other-model"}}
    \cup
    {[name |-> "file", filename |-> f, ctype |-> c, value |-> v] :
        f \in {"a.wav", "model"}, c \in BOOLEAN, v \in {"whisper-1", "RIFF"}}

PartBytes(p) ==
    <<"--x", CRLF, "Content-Disposition: form-data; ">>
    \o (IF p.name = "model" THEN <<Marker>> ELSE <<"name=\"file\"">>)
    \o (CASE p.filename = "" -> <<>>
          [] p.filename = "model" -> <<"; file", Marker>>
          [] OTHER -> <<"; filename=\"a.wav\"">>)
    \o <<CRLF>>
    \o (IF p.ctype THEN <<"Content-Type: text/plain", CRLF>> ELSE <<>>)
    \o <<CRLF, p.value, CRLF>>

RECURSIVE MultipartBody(_)
MultipartBody(parts) ==
    IF parts = <<>> THEN <<"--x--", CRLF>>
    ELSE PartBytes(Head(parts)) \o MultipartBody(Tail(parts))

\* bodies of up to MaxParts parts with at most one model field
MultipartBodies ==
    {parts \in UNION {[1..n -> MultipartParts] : n \in 1..MaxParts} :
        Cardinality({i \in DOMAIN parts : parts[i].name = "model"}) <= 1}

\* ApiConfig.model_mapping for the audio models
AudioModelMappings ==
    {<<>>, [m \in {<<"whisper-1">>} |-> <<"qwen-voice">>],
     [m \in {<<"whisper-1">>} |-> <<"whisper-1">>]}

\* body.windows(pattern.len()).position(|window| window == pattern), as an
\* index from 1 (0: None)
position(body, pattern) ==
    LET hits == {i \in 1..(Len(body) - Len(pattern) + 1) :
                    SubSeq(body, i, i + Len(pattern) - 1) = pattern}
    IN IF hits = {} THEN 0 ELSE CHOOSE i \in hits : \A j \in hits : i <= j

\* find_model_value_bounds: the value is body[start..end), <<0, 0>> is None
find_model_value_bounds(body) ==
    LET marker_index == position(body, <<Marker>>)
        after_marker == marker_index + 1
        separator_index == position(SubSeq(body, after_marker, Len(body)), <<CRLF, CRLF>>)
        value_start == after_marker + (separator_index - 1) + 2
        value_end_relative == position(SubSeq(body, value_start, Len(body)), <<CRLF>>)
        value_end == IF value_end_relative = 0 THEN Len(body) + 1
                     ELSE value_start + (value_end_relative - 1)
    IN IF marker_index = 0 \/ separator_index = 0 THEN <<0, 0>>
       ELSE <<value_start, value_end>>

\* replace_model_in_multipart
replace_model_in_multipart(body, new_model) ==
    LET bounds == find_model_value_bounds(body) IN
    IF bounds # <<0, 0>>
    THEN SubSeq(body, 1, bounds[1] - 1) \o new_model \o SubSeq(body, bounds[2], Len(body))
    ELSE body

\* rewrite_multipart_model
rewrite_multipart_model(body, config) ==
    LET bounds == find_model_value_bounds(body)
        original_model == SubSeq(body, bounds[1], bounds[2] - 1)
    IN IF /\ bounds # <<0, 0>>
          /\ original_model \in DOMAIN config.model_mapping
          /\ config.model_mapping[original_model] # original_model
       THEN replace_model_in_multipart(body, config.model_mapping[original_model])
       ELSE body

MultipartCalls ==
    {[fn |-> "rewrite_multipart_model", parts |-> parts, config |-> [model_mapping |-> mm]] :
        parts \in MultipartBodies, mm \in AudioModelMappings}

\* forward_multipart_route: the body of the request goes through
\* rewrite_multipart_model
forward_multipart_route_body ==
    /\ fn_arg.fn = "rewrite_multipart_model"
    /\ fn_ret = NoRet
    /\ fn_ret' = [fn |-> "rewrite_multipart_model",
                  body |-> rewrite_multipart_model(MultipartBody(fn_arg.parts), fn_arg.config)]
    /\ UNCHANGED <<fn_arg, poolVars, rateVars, configVars, routerVars, trackerVars>>

\* str::to_ascii_lowercase on the header names of the model
to_ascii_lowercase(name) ==
    CASE name = "X-Api-Version" -> "x-api-version"
      [] name = "Content-Type" -> "content-type"
      [] name = "Content-Length" -> "content-length"
      [] name = "Authorization" -> "authorization"
      [] name = "Accept" -> "accept"
      [] name = "Host" -> "host"
      [] name = "Connection" -> "connection"
      [] OTHER -> name

eq_ignore_ascii_case(a, b) == to_ascii_lowercase(a) = to_ascii_lowercase(b)

\* a HashMap<String, String> with one value for all the keys in names
HeaderMaps(names, value) == UNION {[keys -> {value}] : keys \in SUBSET names}

\* HashMap::insert: the key is compared byte by byte
insert(headers, key, value) ==
    [k \in DOMAIN headers \cup {key} |-> IF k = key THEN value ELSE headers[k]]

\* has_header_case_insensitive
has_header_case_insensitive(headers, target) ==
    \E key \in DOMAIN headers : eq_ignore_ascii_case(key, target)

\* copy_header_if_present
copy_header_if_present(headers, client_headers, client_key, canonical_key) ==
    IF ~has_header_case_insensitive(headers, canonical_key) /\ client_key \in DOMAIN client_headers
    THEN insert(headers, canonical_key, client_headers[client_key])
    ELSE headers

\* build_upstream_headers; content_type is <<>> for None
build_upstream_headers(config, endpoint, client_headers, default_api_key, content_type) ==
    LET global == config.headers
        layered == [k \in DOMAIN global \cup DOMAIN endpoint.headers |->
                       IF k \in DOMAIN endpoint.headers THEN endpoint.headers[k] ELSE global[k]]
        typed == IF content_type # <<>> THEN insert(layered, "Content-Type", content_type[1])
                 ELSE layered
        authorized ==
            IF has_header_case_insensitive(typed, "authorization") THEN typed
            ELSE IF "authorization" \in DOMAIN client_headers
                 THEN insert(typed, "Authorization", client_headers["authorization"])
                 ELSE insert(typed, "Authorization", default_api_key)
    IN copy_header_if_present(
           copy_header_if_present(
               copy_header_if_present(authorized, client_headers, "accept", "Accept"),
               client_headers, "user-agent", "User-Agent"),
           client_headers, "x-request-id", "x-request-id")

\* build_request_bytes with a body: the names of the header lines of the
\* request, each with the number of lines that carry it
build_request_bytes(headers) ==
    SetToBag({"Host"}) (+) SetToBag({"Connection"}) (+) SetToBag(DOMAIN headers)
        (+) SetToBag({"Content-Length"})

PlanCalls ==
    {[fn |-> "prepare_forward_plan",
      config |-> [headers |-> g],
      endpoint |-> [headers |-> e],
      client_headers |-> c,
      content_type |-> ct] :
        g \in HeaderMaps({"X-Api-Version", "content-type"}, "global"),
        e \in HeaderMaps({"x-api-version", "authorization"}, "endpoint"),
        c \in HeaderMaps({"authorization", "accept"}, "client"),
        ct \in {<<>>, <<"application/json">>}}

\* prepare_forward_plan builds the headers of the plan and
\* send_request_on_connection writes them with build_request_bytes
prepare_forward_plan ==
    /\ fn_arg.fn = "prepare_forward_plan"
    /\ fn_ret = NoRet
    /\ LET headers == build_upstream_headers(fn_arg.config, fn_arg.endpoint,
                                             fn_arg.client_headers, "Bearer key",
                                             fn_arg.content_type)
       IN fn_ret' = [fn |-> "prepare_forward_plan", headers |-> headers,
                     request |-> build_request_bytes(headers)]
    /\ UNCHANGED <<fn_arg, poolVars, rateVars, configVars, routerVars, trackerVars>>

\* each level sets requests_per_minute and burst or leaves them out
RateLimitLevels == {None, 0, 30}

BurstLevels == {None, 0, 2}

ResolveCalls ==
    {[fn |-> "resolve_rate_limit_settings",
      config |-> [endpoint_rpm |-> er, endpoint_burst |-> eb, global_rpm |-> gr,
                  global_burst |-> gb, env_rpm |-> vr, env_burst |-> vb]] :
        er \in RateLimitLevels, gr \in RateLimitLevels, vr \in RateLimitLevels,
        eb \in BurstLevels, gb \in BurstLevels, vb \in BurstLevels}

\* a call of resolve_rate_limit_settings
resolve_rate_limit_settings_call ==
    /\ fn_arg.fn = "resolve_rate_limit_settings"
    /\ fn_ret = NoRet
    /\ fn_ret' = [fn |-> "resolve_rate_limit_settings",
                  settings |-> resolve_rate_limit_settings(fn_arg.config)]
    /\ UNCHANGED <<fn_arg, poolVars, rateVars, configVars, routerVars, trackerVars>>

\* request targets and upstream paths are sequences of pieces: "/", "?", "&",
\* a scheme with its "://", or a run of other characters.  The target of a
\* request that reaches prepare_forward_plan begins with its route path
RequestTargets ==
    {<<"/", "v1", "/", "chat">>,
     <<"/", "v1", "/", "chat", "?">>,
     <<"/", "v1", "/", "chat", "?", "foo=bar">>,
     <<"/", "v1", "/", "chat", "?", "foo=bar", "&", "baz=qux">>,
     <<"/", "v1", "/", "chat", "?", "foo=bar", "?", "x">>}

\* EndpointConfig.upstream_path: None or Some(path)
NoUpstreamPath == [is_some |-> FALSE, value |-> <<>>]
Some(value) == [is_some |-> TRUE, value |-> value]

UpstreamPaths ==
    {NoUpstreamPath,
     Some(<<"/", "v1", "/", "messages">>),
     Some(<<"v1", "/", "messages">>),
     Some(<<"https://", "api.example.com", "/", "v1", "/", "messages">>),
     Some(<<"/", "v1", "/", "messages", "?">>),
     Some(<<"/", "v1", "/", "messages", "?", "mode=raw">>),
     Some(<<"/", "v1", "/", "messages", "?", "mode=raw", "&">>)}

starts_with(s, prefixes) == Len(s) > 0 /\ s[1] \in prefixes
ends_with(s, c) == Len(s) > 0 /\ s[Len(s)] = c
contains(s, c) == \E i \in 1..Len(s) : s[i] = c

\* str::find: the index of the first c, 0 for None
find(s, c) ==
    IF contains(s, c)
    THEN CHOOSE i \in 1..Len(s) : s[i] = c /\ \A j \in 1..(i - 1) : s[j] # c
    ELSE 0

\* the closure `normalize` of compute_upstream_path
normalize(path) ==
    IF starts_with(path, {"http://", "https://"}) THEN path
    ELSE IF starts_with(path, {"/"}) THEN path
    ELSE <<"/">> \o path

\* a query slice that starts at the '?' instead of after it
query_from_index(request_target, query_index) ==
    SubSeq(request_target, query_index, Len(request_target))

\* &request_target[query_index + 1..]
query_after_index(request_target, query_index) ==
    SubSeq(request_target, query_index + 1, Len(request_target))

\* a compute_upstream_path that pushes '&' without looking at the end of the path
compute_upstream_path_always_joins(request_target, endpoint) ==
    IF endpoint.upstream_path.is_some
    THEN LET path == normalize(endpoint.upstream_path.value)
             query_index == find(request_target, "?")
             query == query_after_index(request_target, query_index)
         IN IF query_index # 0
            THEN IF contains(path, "?")
                 THEN IF query # <<>>
                      THEN path \o <<"&">> \o query
                      ELSE path
                 ELSE IF query # <<>>
                      THEN path \o <<"?">> \o query
                      ELSE path \o <<"?">>
            ELSE path
    ELSE IF starts_with(request_target, {"/"})
         THEN request_target
         ELSE <<"/">> \o request_target

\* compute_upstream_path
compute_upstream_path(request_target, endpoint) ==
    IF endpoint.upstream_path.is_some
    THEN LET path == normalize(endpoint.upstream_path.value)
             query_index == find(request_target, "?")
             query == query_after_index(request_target, query_index)
         IN IF query_index # 0
            THEN IF contains(path, "?")
                 THEN IF query # <<>>
                      THEN IF ~ends_with(path, "?") /\ ~ends_with(path, "&")
                           THEN path \o <<"&">> \o query
                           ELSE path \o query
                      ELSE path
                 ELSE IF query # <<>>
                      THEN path \o <<"?">> \o query
                      ELSE path \o <<"?">>
            ELSE path
    ELSE IF starts_with(request_target, {"/"})
         THEN request_target
         ELSE <<"/">> \o request_target

PathCalls ==
    {[fn |-> "compute_upstream_path", request_target |-> rt, endpoint |-> [upstream_path |-> up]] :
        rt \in RequestTargets, up \in UpstreamPaths}

\* a call of compute_upstream_path
compute_upstream_path_call ==
    /\ fn_arg.fn = "compute_upstream_path"
    /\ fn_ret = NoRet
    /\ fn_ret' = [fn |-> "compute_upstream_path", applied |-> 1,
                  path |-> compute_upstream_path(fn_arg.request_target, fn_arg.endpoint)]
    /\ UNCHANGED <<fn_arg, poolVars, rateVars, configVars, routerVars, trackerVars>>

\* compute_upstream_path called on the path it returned, with the same endpoint
compute_upstream_path_again ==
    /\ fn_arg.fn = "compute_upstream_path"
    /\ fn_ret.fn = "compute_upstream_path"
    /\ fn_ret.applied = 1
    /\ fn_ret' = [fn |-> "compute_upstream_path", applied |-> 2,
                  path |-> compute_upstream_path(fn_ret.path, fn_arg.endpoint),
                  first |-> fn_ret.path]
    /\ UNCHANGED <<fn_arg, poolVars, rateVars, configVars, routerVars, trackerVars>>

\* a normalized base_url (scheme, host, optional ":" port, optional path
\* prefix) and the path of a plan, which compute_upstream_path starts with
\* "/" or with a scheme
BaseUrls ==
    {<<"https://", "api.example.com">>,
     <<"http://", "localhost", ":", "8080">>,
     <<"https://", "api.example.com", "/", "v2">>}

UpstreamCalls ==
    {[fn |-> "forward_to_upstream", base_url |-> b, path |-> p, should_stream |-> s] :
        b \in BaseUrls,
        p \in {<<"/", "v1", "/", "chat">>,
               <<"/", "v1", "/", "chat", "?", "foo=bar">>,
               <<"https://", "other.example.com", "/", "v1", "/", "messages">>},
        s \in BOOLEAN}

\* join_base_and_path
join_base_and_path(base, path) ==
    IF starts_with(path, {"http://", "https://"}) THEN path
    ELSE IF base = <<>> THEN path
    ELSE IF path = <<>> THEN base
    ELSE IF starts_with(path, {"/"}) THEN base \o path
    ELSE base \o <<"/">> \o path

\* Url::parse of an http(s) URL, ConnectionKey::from_url and path_with_query:
\* the key (scheme, host, port_or_known_default) and url.path() followed by
\* "?" and url.query() when the URL has a query; the path of a URL that has
\* none is "/"
Url_parse(url) ==
    LET port_given == Len(url) >= 4 /\ url[3] = ":"
        authority_end == IF port_given THEN 4 ELSE 2
        rest == SubSeq(url, authority_end + 1, Len(url))
    IN [key |-> [scheme |-> url[1],
                 host |-> url[2],
                 port |-> IF port_given THEN url[4]
                          ELSE IF url[1] = "https://" THEN "443" ELSE "80"],
        path_and_query |-> IF starts_with(rest, {"/"}) THEN rest ELSE <<"/">> \o rest]

\* send_http_request(plan.full_url(), ..): the key it acquires a connection
\* for and the target of the request line it builds
send_http_request_wire(base_url, path) ==
    LET parsed_url == Url_parse(join_base_and_path(base_url, path))
    IN [key |-> parsed_url.key, target |-> parsed_url.path_and_query]

\* handle_streaming_request(plan.base_url(), .., plan.path(), ..): the key
\* comes from the base URL, the target is the path as it is
handle_streaming_request_wire(base_url, path) ==
    [key |-> Url_parse(base_url).key, target |-> path]

\* forward_json_route after prepare_forward_plan: the streaming or the
\* non-streaming call, by should_stream
forward_json_route_upstream ==
    /\ fn_arg.fn = "forward_to_upstream"
    /\ fn_ret = NoRet
    /\ fn_ret' = [fn |-> "forward_to_upstream",
                  wire |-> IF fn_arg.should_stream
                           THEN handle_streaming_request_wire(fn_arg.base_url, fn_arg.path)
                           ELSE send_http_request_wire(fn_arg.base_url, fn_arg.path)]
    /\ UNCHANGED <<fn_arg, poolVars, rateVars, configVars, routerVars, trackerVars>>

\* the read loop of handle_request.  Bytes are counted in units: the request
\* head with its terminator is header_end units, a read fills at most
\* ReadBufferLen units (4096 bytes in the code), the loop makes at most
\* ReadBudget reads (1000 in the code)
header_end == 1

\* a client sends the head and client_sends units of body, then either closes
\* its sending side or keeps the connection open and silent
ReadCalls ==
    {[fn |-> "handle_request", content_length |-> cl, client_sends |-> b, closes |-> c] :
        cl \in {None, 0, 1, 3}, b \in 0..4, c \in BOOLEAN}

\* a body test that is satisfied by the terminator alone
body_complete_at_terminator(request_bytes, content_length) == TRUE

\* request_bytes.len() >= header_end + content_length
body_complete(request_bytes, content_length) ==
    request_bytes >= header_end + content_length

\* one iteration of `for _ in 0..1000` in handle_request: stream.read and the
\* tests that end the loop; after the loop an empty request_bytes returns,
\* anything else goes to parse_http_request
handle_request_read ==
    /\ fn_arg.fn = "handle_request"
    /\ fn_ret = NoRet \/ (fn_ret.fn = "handle_request" /\ fn_ret.pc = "read")
    /\ LET iterations == IF fn_ret = NoRet THEN 0 ELSE fn_ret.iterations
           request_bytes == IF fn_ret = NoRet THEN 0 ELSE fn_ret.request_bytes
           unread == header_end + fn_arg.client_sends - request_bytes
           after_loop(len) == IF len = 0 THEN "return" ELSE "parse"
       IN \/ /\ unread > 0
             /\ \E n \in 1..Min(ReadBufferLen, unread) :
                  LET len == request_bytes + n
                      break == /\ len >= header_end
                               /\ \/ fn_arg.content_length = None
                                  \/ body_complete(len, fn_arg.content_length)
                  IN fn_ret' = [fn |-> "handle_request",
                                pc |-> IF break \/ iterations + 1 = ReadBudget
                                       THEN after_loop(len) ELSE "read",
                                iterations |-> iterations + 1,
                                request_bytes |-> len,
                                last_read |-> "Ok(n)"]
          \/ /\ unread = 0
             /\ fn_arg.closes
             /\ fn_ret' = [fn |-> "handle_request",
                           pc |-> after_loop(request_bytes),
                           iterations |-> iterations + 1,
                           request_bytes |-> request_bytes,
                           last_read |-> "Ok(0)"]
          \/ fn_ret' = [fn |-> "handle_request",
                        pc |-> "return",
                        iterations |-> iterations + 1,
                        request_bytes |-> request_bytes,
                        last_read |-> "Err"]
    /\ UNCHANGED <<fn_arg, poolVars, rateVars, configVars, routerVars, trackerVars>>

ForwardCalls ==
    JsonCalls \cup MultipartCalls \cup PlanCalls \cup ResolveCalls \cup PathCalls
        \cup ReadCalls \cup UpstreamCalls

ForwardIdle == fn_arg = NoCall /\ fn_ret = NoRet

ForwardNext ==
    \/ forward_json_route_payload
    \/ forward_json_route_payload_again
    \/ forward_multipart_route_body
    \/ prepare_forward_plan
    \/ resolve_rate_limit_settings_call
    \/ compute_upstream_path_call
    \/ compute_upstream_path_again
    \/ handle_request_read
    \/ forward_json_route_upstream

(***************************************************************************)
(* Upstream failure tracker (error_tracking.rs), for one provider.  An      *)
(* Instant is a whole number of 30-second units.                            *)
(***************************************************************************)
UPSTREAM_FAILURE_THRESHOLD == 5
\* UPSTREAM_FAILURE_WINDOW_SECS = 300, in units
UPSTREAM_FAILURE_WINDOW == 10
\* Duration::from_secs(60) of register_failure, in units
AlertInterval == 2

\* no entry for the provider in UPSTREAM_FAILURE_TRACKER
NoFailureInfo == [present |-> FALSE, count |-> 0, first_failure |-> 0, last_alerted |-> None]

TrackerInit ==
    /\ tnow = 0
    /\ failure_tracker = NoFailureInfo
    /\ alerts = <<>>
    /\ failures_tracked = 0

\* time passes
TrackerTick ==
    /\ tnow < MaxTrackerClock
    /\ tnow' = tnow + 1
    /\ UNCHANGED <<failure_tracker, alerts, failures_tracked>>
    /\ UNCHANGED <<poolVars, rateVars, configVars, routerVars, forwardVars>>

\* UpstreamFailureInfo::register_failure: the entry after the call and the
\* bool it returns
register_failure(info, now) ==
    IF now - info.first_failure > UPSTREAM_FAILURE_WINDOW
    THEN [info |-> [info EXCEPT !.count = 1, !.first_failure = now, !.last_alerted = None],
          should_alert |-> FALSE]
    ELSE LET count == info.count + 1
             should_alert == /\ count >= UPSTREAM_FAILURE_THRESHOLD
                             /\ \/ info.last_alerted = None
                                \/ now - info.last_alerted > AlertInterval
         IN [info |-> [info EXCEPT !.count = count,
                                   !.last_alerted = IF should_alert THEN now ELSE @],
             should_alert |-> should_alert]

\* track_upstream_failure: entry(key).or_insert_with(..), register_failure,
\* alert_repeated_upstream_failures when it returned true, then
\* cleanup_old_failure_trackers
track_upstream_failure ==
    /\ failures_tracked < MaxFailures
    /\ LET entry == IF failure_tracker.present THEN failure_tracker
                    ELSE [present |-> TRUE, count |-> 0, first_failure |-> tnow,
                          last_alerted |-> None]
           registered == register_failure(entry, tnow)
           cutoff == tnow - UPSTREAM_FAILURE_WINDOW * 2
       IN /\ failure_tracker' = IF registered.info.first_failure > cutoff
                                THEN registered.info ELSE NoFailureInfo
          /\ alerts' = IF registered.should_alert
                       THEN Append(alerts, [at |-> tnow,
                                            count |-> registered.info.count,
                                            first_failure |-> registered.info.first_failure])
                       ELSE alerts
    /\ failures_tracked' = failures_tracked + 1
    /\ UNCHANGED tnow
    /\ UNCHANGED <<poolVars, rateVars, configVars, routerVars, forwardVars>>

TrackerNext ==
    \/ TrackerTick
    \/ track_upstream_failure

Init == PoolInit /\ RateInit /\ ConfigInit /\ RouterInit /\ ForwardIdle /\ TrackerInit

\* a call of one of the functions, with its arguments
InitForward ==
    /\ PoolInit /\ RateInit /\ ConfigInit /\ RouterInit /\ TrackerInit
    /\ fn_arg \in ForwardCalls
    /\ fn_ret = NoRet


SpecPool == Init /\ [][PoolNext]_vars

\* the steps of a task that is inside send_http_request or
\* handle_streaming_request: every step but the arrival of a new request
PoolTaskStep(t) ==
    \/ acquire_try_recv(t)
    \/ acquire_expired_sub(t)
    \/ acquire_load(t)
    \/ acquire_fetch_add(t)
    \/ acquire_wait(t)
    \/ acquire_recv(t)
    \/ create_connection_ok(t)
    \/ create_connection_err(t)
    \/ send_request_on_connection_ok(t)
    \/ send_request_on_connection_err(t)
    \/ return_connection(t)
    \/ return_connection_sub(t)
    \/ recycle_connection(t)

\* the executor runs every task that can make a step, and recv().await is
\* woken when the channel holds a connection; new requests and the expiry of
\* idle connections may or may not happen
SpecPoolFair ==
    Init /\ [][PoolNext]_vars /\ \A t \in PoolTasks : WF_vars(PoolTaskStep(t))

SpecRate == Init /\ [][RateNext]_vars

SpecConfig == Init /\ [][ConfigNext]_vars

SpecRouter == Init /\ [][RouterNext]_vars

SpecForward == InitForward /\ [][ForwardNext]_vars

SpecTracker == Init /\ [][TrackerNext]_vars

\* C1: for the connection key, active_count never exceeds max_size in any
\* reachable state under any interleaving of acquire, return_connection and
\* recycle_connection.
ActiveCountWithinMax == active_count <= PoolMaxSize


\* the Allowed calls of bucket k that start and decide inside the window [a, b]
AllowedInWindow(k, a, b) ==
    Cardinality({i \in DOMAIN allowed_log[k] :
                    allowed_log[k][i].called >= a /\ allowed_log[k][i].decided <= b})

\* C2: for a bucket whose checks all use the same settings (R, B), the check
\* calls inside any window of length T <= 60 s that return Allowed number at
\* most B + floor(T * R / 60).
AllowedWithinWindowBound ==
    \A k \in BucketKeys :
        (buckets[k].present /\ same_settings[k]) =>
            \A a \in 0..MaxClock : \A b \in a..MaxClock :
                (b - a <= 60) =>
                    AllowedInWindow(k, a, b) <=
                        buckets[k].settings.burst
                        + ((b - a) * buckets[k].settings.requests_per_minute) \div 60

\* a window of positive length that is filled to its bound, and a Limited call
WindowBoundReached ==
    \E k \in BucketKeys :
        /\ buckets[k].present /\ same_settings[k]
        /\ \E t \in RateTasks : ~rdecision[t].allowed
        /\ \E a \in 0..MaxClock : \E b \in (a + 1)..MaxClock :
              AllowedInWindow(k, a, b) =
                  buckets[k].settings.burst
                  + ((b - a) * buckets[k].settings.requests_per_minute) \div 60

\* C3: checks on one bucket are atomic: N checks decided against a full
\* bucket of capacity B with no refill in between yield min(N, B) Allowed.
BurstYieldsMinOfChecksAndCapacity ==
    \A k \in BucketKeys :
        burst_valid[k] =>
            burst_allowed[k] = Min(burst_checks[k], buckets[k].settings.burst)

\* more checks than tokens were decided against a full bucket while another
\* call is between Instant::now() and the bucket
BurstExceedsCapacity ==
    \E k \in BucketKeys :
        /\ burst_valid[k]
        /\ burst_checks[k] > buckets[k].settings.burst
        /\ \E t \in RateTasks : rpc[t] = "entry" /\ rkey[t] = k

\* C4: after any sequence of check calls, settings changes included, every
\* bucket has 0 <= tokens <= capacity.
TokensWithinCapacity ==
    \A k \in BucketKeys :
        buckets[k].present =>
            (0 <= buckets[k].tokens /\ buckets[k].tokens <= buckets[k].capacity)

\* a bucket whose settings were changed by a check and that was then drained
DrainedAfterSettingsChange ==
    \E k \in BucketKeys :
        buckets[k].present /\ ~same_settings[k] /\ buckets[k].tokens = 0

\* a load_api_config call of task t returns Ok in this step
LoadReturns(t) == cpc[t] \in {"idle", "write_locked"} /\ cpc'[t] = "holding"

\* the config file the loader resolves: the primary, the fallback without it
ResolvedFile == IF primary.exists THEN primary ELSE fallback
ResolvedSource == IF primary.exists THEN "primary" ELSE "fallback"

\* the cached entry was read from the resolved file at its present
\* modification time
ResolvedFileUnchanged ==
    /\ cache_entry.present
    /\ ResolvedFile.exists
    /\ cache_entry.source = ResolvedSource
    /\ cache_entry.modified = ResolvedFile.mtime

\* C6: load_api_config returns the identical cached Arc while the source
\* file's modification time is unchanged, and the first call after it changed
\* returns a new snapshot parsed from the file's present contents.
CachedUntilFileChanges ==
    [][\A t \in ConfigTasks :
          LoadReturns(t) =>
              IF ResolvedFileUnchanged
              THEN csnap'[t] = cache_entry.config /\ cache_entry' = cache_entry
              ELSE /\ csnap'[t] = next_arc + 1
                   /\ cache_entry'.config = csnap'[t]
                   /\ arcs'[csnap'[t]] = ResolvedFile.content
                   /\ cache_entry'.modified = ResolvedFile.mtime]_vars

\* after a reload to other contents, a second call got the identical Arc
ReloadedThenCached ==
    \E t, u \in ConfigTasks :
        /\ t # u
        /\ cpc[t] = "holding" /\ cpath[t] = "installed" /\ cseen[t] = "B"
        /\ cpc[u] = "holding" /\ cpath[u] = "read_hit" /\ csnap[u] = csnap[t]
        /\ next_arc >= 2

\* C7: a snapshot obtained from load_api_config keeps the contents it had
\* when obtained for as long as its holder keeps it, whatever is reloaded.
SnapshotContentsStable ==
    \A t \in ConfigTasks : csnap[t] # 0 => arcs[csnap[t]] = cseen[t]

\* a task still holds a snapshot that a reload has replaced by other contents
HoldsReplacedSnapshot ==
    \E t \in ConfigTasks :
        /\ csnap[t] # 0
        /\ cache_entry.present
        /\ cache_entry.config # csnap[t]
        /\ arcs[cache_entry.config] # cseen[t]

\* C8: concurrent load_api_config calls each return a complete snapshot, the
\* old entry's or the newly installed one's, and at most one entry is
\* installed per file change.
ReloadsLinearize ==
    [][/\ \A t \in ConfigTasks :
            LoadReturns(t) =>
                /\ csnap'[t] = cache_entry'.config
                /\ (cache_entry.present /\ cache_entry' # cache_entry) =>
                       csnap'[t] # cache_entry.config
                /\ arcs'[csnap'[t]] \in ConfigContents \cup {FallbackContent}
       /\ \A v \in 0..MaxFsVersion : installs'[v] <= 1]_vars

\* two calls found the entry stale together: one installed, the other
\* returned the installed entry from the re-check under the write lock
StaleTogether ==
    \E t, u \in ConfigTasks :
        /\ cpc[t] = "holding" /\ cpath[t] = "installed"
        /\ cpc[u] = "holding" /\ cpath[u] = "recheck_hit"
        /\ csnap[u] = csnap[t]

\* C5: when RATE_LIMITER.check returns Limited for a POST to a forwarding
\* route, the dispatcher answers 429 with a Retry-After header of at least one
\* second and ends the request: the request is never planned, no connection
\* is taken for it and nothing is sent upstream.
LimitedAnswers429WithoutUpstream ==
    \A t \in RouterTasks :
        hdecision[t] = "Limited" =>
            /\ hpc[t] \in {"return", "done"}
            /\ ~planned[t] /\ upstream_sent[t] = 0 /\ hconn[t] = "none" /\ hresult[t] = "none"
            /\ recorded[t] = <<429>>
            /\ Len(client_out[t]) <= 1
            /\ client[t] = "open" => Len(client_out[t]) = 1
            /\ \A i \in DOMAIN client_out[t] :
                   /\ client_out[t][i].kind = "response"
                   /\ client_out[t][i].status = 429
                   /\ client_out[t][i].retry_after >= 1

\* a second request of the same credential was Limited and its client got the
\* 429 with Retry-After
LimitedAnswered ==
    \E t \in RouterTasks :
        /\ accepted >= 2
        /\ hdecision[t] = "Limited"
        /\ request[t].method = "POST" /\ request[t].route \in ForwardingRoutes
        /\ client_out[t] = <<Response(429, 2)>>

\* what follows the first SSE header block in what a client socket was sent
AfterSseHeader(out) ==
    IF \E i \in DOMAIN out : out[i] = SseHeader
    THEN SubSeq(out, 1 + CHOOSE i \in DOMAIN out :
                           /\ out[i] = SseHeader
                           /\ \A j \in 1..(i - 1) : out[j] # SseHeader,
                Len(out))
    ELSE <<>>

IsHeartbeat(item) == item.kind = "heartbeat"
IsNotHeartbeat(item) == ~IsHeartbeat(item)

IsPrefix(a, b) == Len(a) <= Len(b) /\ a = SubSeq(b, 1, Len(a))

\* C9: in a streaming request, what is written to the client after the SSE
\* header, heartbeats left out, is at every moment a prefix of the bytes read
\* from the upstream, in the same order.
StreamedBytesArePrefixOfUpstream ==
    \A t \in RouterTasks :
        IsPrefix(SelectSeq(AfterSseHeader(client_out[t]), IsNotHeartbeat),
                 UpstreamBytes(0, upstream_pos[t]))

\* C10: once the 200 SSE header block has been written to a client
\* connection, no response with a 4xx or 5xx status is written to it.
NoErrorStatusAfterSseHeader ==
    \A t \in RouterTasks :
        \A i \in DOMAIN AfterSseHeader(client_out[t]) :
            AfterSseHeader(client_out[t])[i].status < 400

\* C11: when the client write (or flush) of a relayed chunk fails with
\* BrokenPipe or ConnectionReset, the streamer returns Ok and the upstream
\* connection is recycled, not handed back to the pool's idle channel.
ClientDisconnectRecyclesUpstream ==
    [][\A t \in RouterTasks :
          (hpc[t] = "relay_write" /\ hpc'[t] = "tail" /\ client'[t] = "closed") =>
              (hresult'[t] = "Ok" /\ hconn'[t] = "recycled")]_vars

\* C12: when writing the request or reading the response fails on an
\* acquired connection, the Err arm leaves the idle channel alone and takes
\* exactly one from active_count, and the connection is never again in the
\* idle channel or in the hands of a task.
FailedConnectionNeverReused ==
    [][/\ \A t \in PoolTasks :
            (ppc[t] = "failed" /\ ppc'[t] # "failed") =>
                /\ active_count' = active_count - 1
                /\ idle_channel' = idle_channel
                /\ pconn[t] \in recycled'
       /\ \A id \in recycled' :
            /\ \A i \in DOMAIN idle_channel' : idle_channel'[i].id # id
            /\ \A t \in PoolTasks : pconn'[t] # id]_vars

\* after a connection failed and was recycled, a later acquire got another
\* connection
AcquiredAfterRecycle ==
    \E t \in PoolTasks :
        /\ ppc[t] = "holding"
        /\ \E id \in recycled : pconn[t] > id

\* C13: every request that was read adds exactly one row to requests_total,
\* and the status of that row is the status of every response head written
\* to the client for that request.
RequestsTotalRowMatchesStatus ==
    \A t \in RouterTasks :
        (hpc[t] = "done" /\ request[t] # NoRequest) =>
            /\ Len(recorded[t]) = 1
            /\ \A i \in DOMAIN client_out[t] :
                   client_out[t][i].kind \in {"response", "sse_header"} =>
                       client_out[t][i].status = recorded[t][1]

ChunkToRelay(t) ==
    hpc[t] = "relay_write" /\ upstream_avail[t] = 0 /\ client[t] = "open"

\* the last thing written to the client is a heartbeat
HeartbeatPrecedes(t) == IsHeartbeat(client_out[t][Len(client_out[t])])

\* C15: while streaming to a connected client, if the upstream delivers no
\* bytes for a period of at least heartbeat_interval, the streamer writes at
\* least one heartbeat to the client before it relays the next upstream chunk.
HeartbeatAfterUpstreamSilence ==
    \A t \in RouterTasks :
        (ChunkToRelay(t) /\ silence[t] >= StreamConfigOfPlan.heartbeat_interval_secs) =>
            HeartbeatPrecedes(t)

\* C15, amended: while streaming to a connected client, if the next upstream
\* bytes arrive more than heartbeat_interval after the streamer last wrote
\* the header or a chunk to the client, the streamer writes at least one
\* heartbeat to the client before it relays them.
HeartbeatAfterIdleWait ==
    \A t \in RouterTasks :
        (/\ ChunkToRelay(t)
         /\ arrived_at[t] > last_relay[t] + StreamConfigOfPlan.heartbeat_interval_secs) =>
            HeartbeatPrecedes(t)

HeartbeatWrittenWhileIdle ==
    \E t \in RouterTasks :
        /\ ChunkToRelay(t)
        /\ arrived_at[t] > last_relay[t] + StreamConfigOfPlan.heartbeat_interval_secs
        /\ HeartbeatPrecedes(t)

\* C16: for every JSON forwarding route and every valid request body, the
\* body sent upstream decodes to a JSON object equal to the client's object
\* in every member except model: none is dropped, added or altered.
UpstreamBodyEqualsClientObjectExceptModel ==
    (fn_ret.fn = "forward_json_route" /\ fn_ret.result = "Ok") =>
        \A k \in JsonKeys \ {"model"} : fn_ret.body_bytes[k] = fn_arg.body[k]

RECURSIVE PartsLen(_)
PartsLen(parts) ==
    IF parts = <<>> THEN 0 ELSE Len(PartBytes(Head(parts))) + PartsLen(Tail(parts))

\* where the value of the model field of a body made of these parts is
\* (0: the body has no model field)
ModelValueIndex(parts) ==
    IF \A i \in DOMAIN parts : parts[i].name # "model" THEN 0
    ELSE LET m == CHOOSE i \in DOMAIN parts : parts[i].name = "model"
         IN PartsLen(SubSeq(parts, 1, m)) - 1

\* C17: for every multipart body, rewrite_multipart_model returns a body
\* whose bytes before the start and after the end of the model field's value
\* are the input's; only the bytes of the model value may differ, and only
\* when the model is mapped to a different name.
OnlyModelValueRewritten ==
    fn_ret.fn = "rewrite_multipart_model" =>
        LET body == MultipartBody(fn_arg.parts)
            result == fn_ret.body
            at == ModelValueIndex(fn_arg.parts)
        IN IF at = 0 THEN result = body
           ELSE /\ SubSeq(result, 1, at - 1) = SubSeq(body, 1, at - 1)
                /\ Len(result) >= Len(body) - 1
                /\ SubSeq(result, Len(result) - (Len(body) - at) + 1, Len(result)) =
                       SubSeq(body, at + 1, Len(body))
                /\ result # body =>
                       /\ <<body[at]>> \in DOMAIN fn_arg.config.model_mapping
                       /\ fn_arg.config.model_mapping[<<body[at]>>] # <<body[at]>>

\* C18: in the forward plan an endpoint header overrides a global header
\* whose name matches ignoring case, so no two headers of the plan have names
\* that are equal ignoring case, and each header is written to the upstream
\* request exactly once.
PlanHeadersUniqueIgnoringCase ==
    fn_ret.fn = "prepare_forward_plan" =>
        /\ \A a, b \in DOMAIN fn_ret.headers : eq_ignore_ascii_case(a, b) => a = b
        /\ \A a \in DOMAIN fn_ret.headers :
               \A b \in DOMAIN fn_ret.request :
                   eq_ignore_ascii_case(a, b) => (a = b /\ fn_ret.request[b] = 1)

\* the statuses of the responses written to the client of task t
StatusesWritten(t) ==
    {client_out[t][i].status : i \in {j \in DOMAIN client_out[t] : client_out[t][j].kind = "response"}}

\* C19: a failure to connect to the upstream, or an upstream socket I/O
\* error while sending the request or reading the response of a
\* non-streaming forward, produces an HTTP 502 response to the client.
UpstreamFailureAnswers502 ==
    \A t \in RouterTasks :
        (hpc[t] = "done" /\ client[t] = "open" /\ upstream_outcome[t] \in {"connect", "io"}) =>
            StatusesWritten(t) \subseteq {502}

\* C20: when the upstream answers a non-streaming forward with a status
\* outside 2xx, the request ends in the Upstream error kind and the client
\* receives HTTP 502, never a 200.
UpstreamErrorStatusAnswers502 ==
    \A t \in RouterTasks :
        (hpc[t] = "done" /\ client[t] = "open" /\ upstream_outcome[t] = "status_5xx") =>
            /\ hresult[t] = "Upstream"
            /\ StatusesWritten(t) \subseteq {502}

\* the requests_per_minute of the highest-precedence level that sets it
EffectiveRequestsPerMinute(config) ==
    IF config.endpoint_rpm # None THEN config.endpoint_rpm
    ELSE IF config.global_rpm # None THEN config.global_rpm
    ELSE config.env_rpm

\* C21: when the effective requests_per_minute of a route resolves to 0,
\* every request to that route is admitted and the rate limiter neither
\* creates nor modifies any bucket for it.
ZeroRequestsPerMinuteIsUnlimited ==
    [][\A t \in RouterTasks :
          (/\ hpc[t] = "rate_limit"
           /\ EffectiveRequestsPerMinute(hconfig[t]) = 0
           /\ hpc'[t] # hpc[t]) =>
              /\ hpc'[t] = "route"
              /\ hdecision'[t] = "none"
              /\ buckets' = buckets]_vars

UnlimitedNextToSpentBucket ==
    \E t \in RouterTasks :
        /\ hpc[t] = "route"
        /\ EffectiveRequestsPerMinute(hconfig[t]) = 0
        /\ buckets["client_a"].present
        /\ buckets["client_a"].tokens < TokenUnit

\* the first value of a sequence of optional values that is defined
RECURSIVE FirstDefined(_)
FirstDefined(levels) ==
    IF levels = <<>> THEN None
    ELSE IF Head(levels) # None THEN Head(levels)
    ELSE FirstDefined(Tail(levels))

\* C22: resolve_rate_limit_settings returns requests_per_minute as the first
\* value defined among endpoint, global and environment, and burst as
\* max(1, b) with b the first burst defined among endpoint, global and
\* environment, or requests_per_minute when none defines it; it returns no
\* settings (no limiting) when no level defines requests_per_minute or the
\* first one defined is 0.
SettingsResolvedByPrecedence ==
    fn_ret.fn = "resolve_rate_limit_settings" =>
        LET config == fn_arg.config
            rpm == FirstDefined(<<config.endpoint_rpm, config.global_rpm, config.env_rpm>>)
            b == FirstDefined(<<config.endpoint_burst, config.global_burst, config.env_burst>>)
        IN IF rpm = None \/ rpm = 0
           THEN fn_ret.settings = NoSettings
           ELSE /\ fn_ret.settings.requests_per_minute = rpm
                /\ fn_ret.settings.burst = IF b = None THEN rpm
                                           ELSE IF b >= 1 THEN b ELSE 1

GlobalBurstZeroUnderEnvironmentRate ==
    /\ fn_ret.fn = "resolve_rate_limit_settings"
    /\ fn_arg.config.endpoint_rpm = None
    /\ fn_arg.config.global_rpm = None
    /\ fn_arg.config.env_rpm = 30
    /\ fn_arg.config.endpoint_burst = None
    /\ fn_arg.config.global_burst = 0
    /\ fn_arg.config.env_burst = 2
    /\ fn_ret.settings = [requests_per_minute |-> 30, burst |-> 1]

\* C23: a check on an existing bucket with settings different from those it
\* stores gives the bucket the new capacity and refill rate with the tokens
\* at the new capacity before it admits, so the call is Allowed and takes its
\* token from the full bucket, whatever the balance was.
NewSettingsRefillBucket ==
    [][\A t \in RateTasks :
          (/\ rpc[t] = "entry"
           /\ rpc'[t] = "idle"
           /\ buckets[rkey[t]].present
           /\ buckets[rkey[t]].settings # rsettings[t]) =>
              /\ rdecision'[t].allowed
              /\ buckets'[rkey[t]].settings = rsettings[t]
              /\ buckets'[rkey[t]].capacity = rsettings[t].burst * TokenUnit
              /\ buckets'[rkey[t]].refill_per_second = rsettings[t].requests_per_minute
              /\ buckets'[rkey[t]].tokens = (rsettings[t].burst - 1) * TokenUnit]_vars

\* three calls admitted within one instant, more than the largest burst: the
\* last one met a spent bucket under other settings
AllowedOnSpentBucketAfterChange ==
    /\ clock = 0
    /\ Len(allowed_log["client_a"]) = 3
    /\ ~same_settings["client_a"]
    /\ buckets["client_a"].settings = [requests_per_minute |-> 30, burst |-> 1]
    /\ buckets["client_a"].tokens = 0

\* the least whole number of seconds in which rate r yields `needed`
CeilSeconds(needed, r) ==
    CHOOSE n \in 0..needed : n * r >= needed /\ (n - 1) * r < needed

\* C24: every Limited decision carries retry_after_seconds =
\* max(1, ceil((1 - tokens) / refill_per_second)), with tokens the balance
\* after the refill of that call, and never less than 1.
RetryAfterIsCeilOfDeficit ==
    [][\A t \in RateTasks :
          (rpc[t] = "entry" /\ rpc'[t] = "idle" /\ ~rdecision'[t].allowed) =>
              LET b == buckets'[rkey[t]]
                  wait == CeilSeconds(TokenUnit - b.tokens, b.refill_per_second)
              IN /\ b = refill(check_entry(buckets, rkey[t], rsettings[t], rnow[t]), rnow[t])
                 /\ rdecision'[t].retry_after_seconds = IF wait >= 1 THEN wait ELSE 1
                 /\ rdecision'[t].retry_after_seconds >= 1]_vars

\* a Limited decision on a spent bucket at 40 requests per minute: a token
\* takes a second and a half, and the decision says 2
LimitedOnSpentBucketRoundsUp ==
    \E t \in RateTasks :
        /\ rpc[t] = "idle"
        /\ ~rdecision[t].allowed
        /\ rdecision[t].retry_after_seconds = 2
        /\ buckets[rkey[t]].tokens = 0
        /\ buckets[rkey[t]].refill_per_second = 40

\* the task's call of load_api_config reaches load_config_with_paths in this step
Reloads(t) == cpc[t] = "write_locked" /\ cpc'[t] # "write_locked" /\ ~cache_hit(cache_entry)

\* C25: when a reload fails because the config file is not valid JSON,
\* load_api_config returns ConfigParse and the cache cell holds exactly what
\* it held before.
FailedParseKeepsCache ==
    [][\A t \in ConfigTasks :
          (Reloads(t) /\ primary.exists /\ primary.content = InvalidJson) =>
              /\ cpath'[t] = "ConfigParse"
              /\ cpc'[t] = "idle"
              /\ cache_entry' = cache_entry
              /\ arcs' = arcs]_vars

CachedConfigSurvivesInvalidFile ==
    \E t \in ConfigTasks :
        /\ cpc[t] = "idle"
        /\ cpath[t] = "ConfigParse"
        /\ primary.exists
        /\ primary.content = InvalidJson
        /\ cache_entry.present
        /\ cache_entry.source = "primary"
        /\ arcs[cache_entry.config] = "A"

\* C26: the fallback config file is read only when the primary cannot be
\* opened; a primary that exists but fails to parse yields ConfigParse
\* without the fallback being read.
FallbackReadOnlyWhenPrimaryMissing ==
    [][\A t \in ConfigTasks :
          (cpc[t] = "write_locked" /\ cpc'[t] # "write_locked") =>
              /\ (\E i \in 1..Len(creads'[t]) : creads'[t][i] = "fallback") => ~primary.exists
              /\ (Reloads(t) /\ primary.exists /\ primary.content = InvalidJson) =>
                    (cpath'[t] = "ConfigParse" /\ creads'[t] = <<"primary">>)]_vars

InvalidPrimaryNextToGoodFallback ==
    \E t \in ConfigTasks :
        /\ cpc[t] = "idle"
        /\ cpath[t] = "ConfigParse"
        /\ creads[t] = <<"primary">>
        /\ primary.exists
        /\ primary.content = InvalidJson
        /\ fallback.exists
        /\ ~cache_entry.present

\* task t has handled a POST without a body to a forwarding route
EmptyBodyPostHandled(t) ==
    /\ hpc[t] = "done"
    /\ request[t].parse_ok
    /\ request[t].method = "POST"
    /\ request[t].route \in ForwardingRoutes
    /\ ~request[t].has_body

PostToForwardingRoute(t) ==
    /\ request[t].method = "POST"
    /\ request[t].route \in {"/v1/chat/completions", "/v1/completions", "/v1/embeddings",
                             "/v1/audio/transcriptions", "/v1/audio/translations",
                             "/v1/messages"}

\* the request of task t is GET /health, GET /metrics or GET /v1/models
GetOfLocalRoute(t) ==
    request[t].method = "GET" /\ request[t].route \in {"/health", "/metrics", "/v1/models"}

\* C28: a request is forwarded upstream only when its method is POST and its
\* route path is one of the six forwarding routes; every other (method, path)
\* except GET /health, GET /metrics and GET /v1/models gets 404 and consults
\* neither the config cache, the rate limiter nor the upstream.
OnlyPostToForwardingRoutesForwarded ==
    \A t \in RouterTasks :
        /\ (planned[t] \/ upstream_sent[t] > 0 \/ hconn[t] # "none") => PostToForwardingRoute(t)
        /\ (request[t].parse_ok /\ ~PostToForwardingRoute(t) /\ ~GetOfLocalRoute(t)) =>
              /\ hpc[t] \in {"dispatch", "return", "done"}
              /\ hconfig[t] = NoConfig
              /\ hsettings[t] = NoSettings
              /\ hdecision[t] = "none"
              /\ hresult[t] = "none"
              /\ upstream_outcome[t] = "none"
              /\ ~planned[t] /\ upstream_sent[t] = 0 /\ hconn[t] = "none"
              /\ (hpc[t] = "done" /\ client[t] = "open") => StatusesWritten(t) = {404}
              /\ hpc[t] = "done" => recorded[t] = <<404>>

PostToModelsNotFound ==
    \E t \in RouterTasks :
        /\ hpc[t] = "done"
        /\ request[t].method = "POST"
        /\ request[t].route = "/v1/models"
        /\ client[t] = "open"
        /\ StatusesWritten(t) = {404}
        /\ buckets["client_a"].present

\* the first application of compute_upstream_path has returned
PathComputed == fn_ret.fn = "compute_upstream_path" /\ fn_ret.applied = 1

\* the override with a leading '/' added when it is relative
OverridePath(endpoint) ==
    LET o == endpoint.upstream_path.value
    IN IF o # <<>> /\ o[1] \in {"/", "http://", "https://"} THEN o ELSE <<"/">> \o o

\* the request target has a '?'; its query is what follows the first one
HasQuery(target) == \E i \in 1..Len(target) : target[i] = "?"

QueryOf(target) ==
    LET first == CHOOSE i \in 1..Len(target) :
                     target[i] = "?" /\ \A j \in 1..(i - 1) : target[j] # "?"
    IN [i \in 1..(Len(target) - first) |-> target[first + i]]

PathComputedAgain == fn_ret.fn = "compute_upstream_path" /\ fn_ret.applied = 2

\* C30 as stated: compute_upstream_path is idempotent: for every endpoint
\* config and request target, applying it to its own output with the same
\* endpoint config returns that output unchanged.
ComputeUpstreamPathIdempotent ==
    PathComputedAgain => fn_ret.path = fn_ret.first

\* C30: for every request target and every endpoint config that has no
\* upstream_path override or whose override contains no '?', applying
\* compute_upstream_path to its own output with the same endpoint config
\* returns that output unchanged.
IdempotentWithoutOverrideQuery ==
    (PathComputedAgain /\ ~HasQuery(fn_arg.endpoint.upstream_path.value)) =>
        fn_ret.path = fn_ret.first

QueryKeptOnSecondApplication ==
    /\ PathComputedAgain
    /\ fn_arg.endpoint.upstream_path = Some(<<"v1", "/", "messages">>)
    /\ fn_arg.request_target = <<"/", "v1", "/", "chat", "?", "foo=bar", "?", "x">>
    /\ fn_ret.first = <<"/", "v1", "/", "messages", "?", "foo=bar", "?", "x">>
    /\ fn_ret.path = fn_ret.first

\* the rewrite has been applied to the output of a first application
RewrittenTwice == fn_ret.fn = "forward_json_route_again"

\* C31 as stated: for every model mapping and every request, applying the
\* model-name rewrite twice with the same mapping gives the same request as
\* applying it once.
ModelRewriteIdempotent ==
    RewrittenTwice => (fn_ret.result = "Ok" /\ fn_ret.body_bytes = fn_ret.first)

\* no name the mapping maps to is itself mapped to another name
MapsToUnmappedNames(mapping) ==
    \A k \in DOMAIN mapping :
        mapping[k] \in DOMAIN mapping => mapping[mapping[k]] = mapping[k]

\* C31: for every model mapping in which no mapped-to name is itself mapped
\* to a different name, and every request, applying the model-name rewrite
\* twice with the same mapping gives the same request as applying it once.
ModelRewriteIdempotentWithoutChains ==
    (RewrittenTwice /\ MapsToUnmappedNames(fn_arg.config.model_mapping)) =>
        (fn_ret.result = "Ok" /\ fn_ret.body_bytes = fn_ret.first)

MappedModelKeptOnSecondRewrite ==
    /\ RewrittenTwice
    /\ fn_arg.config.model_mapping = [m \in {"gpt-4"} |-> "qwen-max"]
    /\ fn_arg.body.model = JsonValue("string", "gpt-4")
    /\ fn_arg.body.temperature = JsonValue("number", "0.123456789")
    /\ fn_ret.first.model = JsonValue("string", "qwen-max")
    /\ fn_ret.body_bytes = fn_ret.first

\* the read loop has ended and request_bytes goes to parse_http_request, for
\* a request whose head carries Content-Length
ParsedWithContentLength ==
    /\ fn_ret.fn = "handle_request"
    /\ fn_ret.pc = "parse"
    /\ fn_arg.content_length # None

ExpiredIdle == {idle_channel[i].id : i \in {j \in 1..Len(idle_channel) : idle_channel[j].expired}}

StreamingSendsWhatNonStreamingWould ==
    (fn_ret.fn = "forward_to_upstream" /\ fn_arg.should_stream)
        => fn_ret.wire = send_http_request_wire(fn_arg.base_url, fn_arg.path)

\* C35: for the provider, register_failure signals an alert only when at
\* least 5 failures have been registered in the current 300-second window
\* (which starts at the first failure and restarts, with count reset to 1 and
\* no alert, at the first failure after it expires), and never signals two
\* alerts less than 60 seconds apart.
AlertsAtThresholdAndAMinuteApart ==
    /\ \A i \in DOMAIN alerts :
          /\ alerts[i].count >= UPSTREAM_FAILURE_THRESHOLD
          /\ alerts[i].at - alerts[i].first_failure <= UPSTREAM_FAILURE_WINDOW
    /\ \A i, j \in DOMAIN alerts :
          i < j => alerts[j].at - alerts[i].at >= AlertInterval

\* the tasks that own a connection (acquire has returned it and the caller
\* has neither returned nor recycled it)
CheckedOut == {t \in PoolTasks : ppc[t] \in {"holding", "sent", "sent_eof", "failed"}}

\* C36: for the key, active_count always equals the number of connections
\* that currently exist for it (checked out plus idle); in particular an
\* acquire whose connection creation fails leaves active_count as it was.
\* Stated for the states in which no task is inside acquire or
\* return_connection.
ActiveCountIsConnectionCount ==
    (\A t \in PoolTasks : ppc[t] \in {"idle", "holding", "sent", "sent_eof", "failed"})
        => active_count = Cardinality(CheckedOut) + Len(idle_channel)

\* C37: if an acquire is blocked because active_count reached max_size and
\* a checked-out connection of that key is later released (returned or
\* recycled), then some blocked acquire eventually completes: no acquire
\* stays blocked forever while active_count is below max_size.
NoAcquireBlockedBelowMax ==
    \A t \in PoolTasks :
        []<>(~(ppc[t] = "recv_wait" /\ active_count < PoolMaxSize))

\* ids of the idle connections on which a read of 0 bytes was observed
EofIdle == {idle_channel[i].id : i \in {j \in 1..Len(idle_channel) : idle_channel[j].eof}}

\* C38: a connection on which the router has observed upstream EOF (a read of
\* 0 bytes), in the non-streaming client or in the streamer, is never placed
\* in the idle channel and never handed to a later acquire.
EofConnectionNeverPooled ==
    [][/\ \A i \in 1..Len(idle_channel') : ~idle_channel'[i].eof
       /\ \A t \in PoolTasks : pconn'[t] \notin EofIdle]_vars

\* C39: if check returns Limited with retry_after_seconds = s at time t and
\* no other check touches that bucket in between, then a check with the same
\* settings made at any time >= t + s returns Allowed.
AllowedAfterRetryAfter ==
    \A k \in BucketKeys : last_decision[k].waited => ~last_decision[k].limited

\* a check made two seconds after a Limited decision that named two seconds
CheckedAfterTwoSecondWait ==
    \E k \in BucketKeys :
        /\ last_decision[k].waited
        /\ last_decision[k].decided = 2
        /\ buckets[k].settings.requests_per_minute = 40

\* the HTTP responses (status line and headers) written to the client of t
ResponsesWritten(t) ==
    {i \in DOMAIN client_out[t] : client_out[t][i].kind = "response"}

\* C40: for every request that parses successfully, the dispatcher writes
\* exactly one HTTP response to the client; in particular when a forwarding
\* handler returns an error, the mapped error response is written once, not
\* twice.  Stated for the requests whose client stays connected to the end.
ExactlyOneResponseWritten ==
    \A t \in RouterTasks :
        (hpc[t] = "done" /\ request[t].parse_ok /\ client[t] = "open") =>
            Cardinality(ResponsesWritten(t)) = 1

============================================================================
